---- MODULE Spec2Model ----
(***************************************************************************)
(* Knowledge-base index lifecycle of AimsgHub.                             *)
(*                                                                         *)
(* services/vector_store.py builds one Chroma directory per ingestion,     *)
(* named vs_<user>_<int(time.time())>, writes its path to the user's       *)
(* vector_store_path field and deletes older directories in detached       *)
(* asyncio tasks.  The model follows the asyncio scheduling of the code:   *)
(* a coroutine runs without interruption between two awaits (the build of  *)
(* lines 189-225 holds the event loop), while safe_delete_directory runs   *)
(* in an executor thread and the users collection lives in the database,   *)
(* so their steps interleave with everything.                              *)
(***************************************************************************)
EXTENDS Integers, Sequences, FiniteSets, TLC

\* ------------------------------------------------------------------ bounds
NumTenants == 2
NumProcs == 2
NumSweepReqs == 1
MaxTime == 2
TicksPerSecond == 2
MaxBatches == 2

\* ------------------------------------------------------- program constants
\* safe_delete_directory(path, max_retries = 5, ...)
max_retries == 5

Tenants == 1..NumTenants
Procs == 1..NumProcs
\* The values int(time.time()) takes while the clock runs to MaxTime.
Times == 0..(MaxTime \div TicksPerSecond)

\* An index directory under VECTOR_STORE_DIR, vs_<user>_<timestamp>.
Paths == Tenants \X Times
\* A user record without vector_store_path (user.get(...) is None).
NoPath == <<>>

\* Detached work: the cleanup task and the sweep task an ingestion creates,
\* and the sweeps requested through /chatbot/cleanup-old-knowledge-bases.
JobIds == ({"cleanup", "sweep"} \X Procs) \cup ({"endpoint"} \X (1..NumSweepReqs))

VARIABLES
    now,                \* time.time(), in ticks of 1/TicksPerSecond s
    vector_store_path,  \* users collection: user -> path or NoPath
    disk,               \* path -> "absent" | "partial" | "complete"
    pc,                 \* ingestion request -> position in create_or_update_vector_store
    req,                \* ingestion request -> its locals
    job,                \* detached job -> its state
    lastWrite           \* user -> the request whose pointer update landed last (0: none)

lifeVars == <<now, vector_store_path, disk, pc, req, job, lastWrite>>

\* State of one query request served by test_chatbot_query or whatsapp_webhook.
VARIABLES
    handler,            \* the endpoint serving the question
    chatbot_active,     \* current_user.get('chatbot_active', False)
    GROQ_API_KEY,       \* TRUE iff config.GROQ_API_KEY is set
    path_state,         \* user's vector_store_path: "unset" | "missing" | "present"
    existing_files,     \* os.listdir(vector_store_path)
    qpc,                \* position in the handler
    vector_store,       \* the handler's local: "none" | "open" | "closed"
    client,             \* the Chroma client opened for the request: "none" | "open" | "closed"
    fetched,            \* the opened index's chunks nearest to the question
    compressed_docs,    \* what the retriever returned
    context,            \* the context argument of chain.ainvoke
    raised,             \* the exception the try block caught ("none": none)
    response            \* what the end user receives

queryVars == <<handler, chatbot_active, GROQ_API_KEY, path_state, existing_files,
               qpc, vector_store, client, fetched, compressed_docs, context, raised,
               response>>

\* State of one call of calculate_dynamic_chunk_size.
VARIABLES
    total_chars,            \* len(text)
    dynamic_chunk_size,     \* the first component returned (0: not yet called)
    dynamic_chunk_overlap   \* the second component returned

chunkVars == <<total_chars, dynamic_chunk_size, dynamic_chunk_overlap>>

\* State of one call of load_documents(.., "website", url) and of the
\* crawl_links call it makes.
VARIABLES
    start_url,          \* the seed
    limit,              \* crawl_links' limit
    visited,            \* set of URLs taken from the stack
    to_visit,           \* the stack, top at the end
    all_links,          \* the result list
    requested,          \* the URLs passed to requests.get, in order
    failed,             \* the URLs whose requests.get raised (kept for the claims)
    discovered,         \* every URL appended to to_visit, in order (kept for the claims)
    wpc,                \* position in load_documents
    texts,              \* len(text) of each fallback fetch made, 0 for a fetch that raised
    next_link,          \* index in urls of the fallback loop's next link
    documents           \* the source URLs of the documents loaded

crawlVars == <<start_url, limit, visited, to_visit, all_links, requested, failed,
               discovered, wpc, texts,
               next_link, documents>>

\* State of one call of safe_delete_directory(path).
VARIABLES
    target,             \* the directory at path: "present" | "absent"
    existed,            \* os.path.exists(path) as line 47 saw it ("unknown": not yet)
    attempt,            \* the loop variable
    events,             \* what the call did so far, in order
    success,            \* the value returned: "True" | "False" ("none": running)
    dpc                 \* position in the function

deleteVars == <<target, existed, attempt, events, success, dpc>>

\* State of one request served by clear_knowledge_base.
VARIABLES
    current_user,       \* the tenant the request is for (0: no request)
    user,               \* vector_store_path of the record find_one returned
    kpc                 \* position in the handler

clearVars == <<current_user, user, kpc>>

\* State of the batch loop of create_or_update_vector_store (lines 214-217).
VARIABLES
    split_docs,         \* the chunks, in the splitter's order
    offset,             \* the loop variable i of range(0, len(split_docs), BATCH_SIZE)
    batches,            \* the arguments of the add_documents calls, in call order
    bpc                 \* position in the loop

batchVars == <<split_docs, offset, batches, bpc>>

\* State of one request served by upload_knowledge_base.
VARIABLES
    knowledge_file,     \* the uploaded file (NoFile: the request has no file part)
    knowledge_url,      \* the URL form field (NoUrl: the request has no such field)
    file_type,          \* the source type handed to create_or_update_vector_store
    upc,                \* position in the handler
    exc,                \* the exception in flight
    thrown,             \* the exception as first raised (kept for the claims)
    calls,              \* calls of create_or_update_vector_store made so far
    reply,              \* what the HTTP client receives
    temp_file_path,     \* TRUE iff the local temp_file_path is set (FALSE: None)
    temp_file           \* the temporary file: "none" | "exists" | "removed" | "kept" (unlink raised)

uploadVars == <<knowledge_file, knowledge_url, file_type, upc, exc, thrown, calls, reply,
                temp_file_path, temp_file>>

\* State of one call of force_delete_old_vector_stores(user_id, exclude_current_path),
\* with directory entries written as names.
VARIABLES
    user_id,                \* the tenant's id, a string of hex digits
    exclude_current_path,   \* the path to spare (NoPath: None)
    index_root,             \* the entries of VECTOR_STORE_DIR
    listing,                \* the entries os.listdir returned that the loop has not reached
    spc                     \* position in the function

sweepVars == <<user_id, exclude_current_path, index_root, listing, spc>>

\* State of one API key: generate_scoped_key, then validate_api_key.
VARIABLES
    key_user_id,        \* the user_id the key is generated for
    key_scope,          \* the scope the key is generated for
    clock,              \* datetime.now(timezone.utc), in clock readings
    generated_at,       \* the clock when the key was generated
    api_key,            \* the key string
    required_scope,     \* the scope the key is validated against
    validation,         \* what validate_api_key returned
    apc                 \* "idle" | "new" | "issued" | "validated"

keyVars == <<key_user_id, key_scope, clock, generated_at, api_key, required_scope,
             validation, apc>>

\* Everything outside the index lifecycle.
restVars == <<queryVars, chunkVars, crawlVars, deleteVars, clearVars, batchVars, uploadVars, sweepVars, keyVars>>
\* Everything outside a query request.
notQuery == <<lifeVars, chunkVars, crawlVars, deleteVars, clearVars, batchVars, uploadVars, sweepVars, keyVars>>
\* Everything outside a call of calculate_dynamic_chunk_size.
notChunk == <<lifeVars, queryVars, crawlVars, deleteVars, clearVars, batchVars, uploadVars, sweepVars, keyVars>>
\* Everything outside a website load.
notCrawl == <<lifeVars, queryVars, chunkVars, deleteVars, clearVars, batchVars, uploadVars, sweepVars, keyVars>>
\* Everything outside a call of safe_delete_directory.
notDelete == <<lifeVars, queryVars, chunkVars, crawlVars, clearVars, batchVars, uploadVars, sweepVars, keyVars>>
\* Everything a clear request leaves alone.
notClear == <<now, pc, req, job, lastWrite, queryVars, chunkVars, crawlVars, deleteVars, batchVars, uploadVars, sweepVars, keyVars>>
\* Everything outside the batch loop.
notBatch == <<lifeVars, queryVars, chunkVars, crawlVars, deleteVars, clearVars, uploadVars, sweepVars, keyVars>>
\* Everything outside an upload request.
notUpload == <<lifeVars, queryVars, chunkVars, crawlVars, deleteVars, clearVars, batchVars, sweepVars, keyVars>>
\* Everything outside a sweep by name.
notSweep == <<lifeVars, queryVars, chunkVars, crawlVars, deleteVars, clearVars, batchVars, uploadVars, keyVars>>
\* Everything outside the handling of an API key.
notKey == <<lifeVars, queryVars, chunkVars, crawlVars, deleteVars, clearVars, batchVars, uploadVars, sweepVars>>

vars == <<lifeVars, restVars>>

NoReq == [user |-> 0, snap |-> NoPath, ts |-> 0, nb |-> 0, bi |-> 0,
          sched |-> FALSE, fresh |-> FALSE, err |-> "none", ret |-> NoPath]
NoJob == [st |-> "none", user |-> 0, excl |-> NoPath, items |-> {}, cur |-> NoPath,
          att |-> 0, failed |-> FALSE, removed |-> {}, quiet |-> TRUE]

\* int(time.time()): the clock truncated to whole seconds.
timestamp == now \div TicksPerSecond

\* os.path.join(VECTOR_STORE_DIR, f"vs_{user['_id']}_{timestamp}")
new_vs_path(i) == <<req[i].user, req[i].ts>>

\* user.get('vector_store_path') of the user dict the request was given.
old_vector_store_path(i) == req[i].snap

\* os.path.exists(path)
exists(p) == p # NoPath /\ disk[p] # "absent"

\* item.startswith(f"vs_{user_id}_") or re.match(f"vs_{user_id}$", item)
matches(p, u) == p[1] = u

\* The event loop is free: no coroutine is inside the await-free build block.
LoopFree == \A i \in Procs : pc[i] \notin {"building", "persisted"}

LifeInit ==
    /\ now = 0
    /\ vector_store_path = [u \in Tenants |-> NoPath]
    /\ disk = [p \in Paths |-> "absent"]
    /\ pc = [i \in Procs |-> "idle"]
    /\ req = [i \in Procs |-> NoReq]
    /\ job = [d \in JobIds |-> NoJob]
    /\ lastWrite = [u \in Tenants |-> 0]

\* Nothing has been sent to the end user yet.
NoResponse == [raised |-> FALSE, status |-> "none", body |-> "none"]

\* The synthesizer has not been invoked.
NoContext == [invoked |-> FALSE, ShortConversation |-> FALSE, KnowledgeBase |-> <<>>]

\* No query request is being served.
QueryIdle ==
    /\ handler = "none"
    /\ chatbot_active = FALSE
    /\ GROQ_API_KEY = FALSE
    /\ path_state = "unset"
    /\ existing_files = {}
    /\ qpc = "idle"
    /\ vector_store = "none"
    /\ client = "none"
    /\ fetched = <<>>
    /\ compressed_docs = <<>>
    /\ raised = "none"
    /\ response = NoResponse
    /\ context = NoContext

\* calculate_dynamic_chunk_size is not being called.
ChunkIdle ==
    /\ total_chars = 0
    /\ dynamic_chunk_size = 0
    /\ dynamic_chunk_overlap = 0

\* No website is being loaded.
CrawlIdle ==
    /\ start_url = <<>>
    /\ limit = 0
    /\ visited = {}
    /\ to_visit = <<>>
    /\ all_links = <<>>
    /\ requested = <<>>
    /\ failed = {}
    /\ discovered = <<>>
    /\ wpc = "idle"
    /\ next_link = 0
    /\ texts = <<>>
    /\ documents = <<>>

\* safe_delete_directory is not being called.
DeleteIdle ==
    /\ target = "absent"
    /\ existed = "unknown"
    /\ attempt = 0
    /\ events = <<>>
    /\ success = "none"
    /\ dpc = "idle"

\* No clear request is being served.
ClearIdle ==
    /\ current_user = 0
    /\ user = NoPath
    /\ kpc = "idle"

\* No batch loop is running.
BatchIdle ==
    /\ split_docs = <<>>
    /\ offset = 0
    /\ batches = <<>>
    /\ bpc = "idle"

\* knowledge_file: Optional[UploadFile] = File(None); a filename is its stem
\* followed by its extension.
NoFile == [given |-> FALSE, filename |-> <<>>]
\* knowledge_url: Optional[str] = Form(None); a URL is what urlparse makes of it.
NoUrl == [given |-> FALSE, scheme |-> "", netloc |-> ""]

\* No upload request is being served.
UploadIdle ==
    /\ knowledge_file = NoFile
    /\ knowledge_url = NoUrl
    /\ file_type = "none"
    /\ upc = "idle"
    /\ exc = NoResponse
    /\ thrown = NoResponse
    /\ calls = 0
    /\ reply = NoResponse
    /\ temp_file_path = FALSE
    /\ temp_file = "none"

\* No sweep by name is running.
SweepIdle ==
    /\ user_id = <<>>
    /\ exclude_current_path = NoPath
    /\ index_root = {}
    /\ listing = {}
    /\ spc = "idle"

\* validate_api_key has not returned.
NoValidation == [valid |-> FALSE, user_id |-> <<>>, scope |-> <<>>, error |-> "none"]

\* No API key is being handled.
KeyIdle ==
    /\ key_user_id = <<>>
    /\ key_scope = <<>>
    /\ clock = 0
    /\ generated_at = 0
    /\ api_key = <<>>
    /\ required_scope = <<>>
    /\ validation = NoValidation
    /\ apc = "idle"

Init ==
    /\ LifeInit
    /\ QueryIdle
    /\ ChunkIdle
    /\ CrawlIdle
    /\ DeleteIdle
    /\ ClearIdle
    /\ BatchIdle
    /\ UploadIdle
    /\ SweepIdle
    /\ KeyIdle

\* The wall clock advances.
Tick ==
    /\ now < MaxTime
    /\ now' = now + 1
    /\ UNCHANGED <<vector_store_path, disk, pc, req, job, lastWrite, restVars>>

\* ------------------------------------------------------------ ingestion
\* create_or_update_vector_store is entered for user u: the request carries
\* the user record read by get_current_user, and line 162 reads the clock.
Begin(i, u) ==
    /\ LoopFree
    /\ pc[i] = "idle"
    /\ pc' = [pc EXCEPT ![i] = "loading"]
    /\ req' = [j \in Procs |->
                 IF j = i THEN [NoReq EXCEPT !.user = u,
                                             !.snap = vector_store_path[u],
                                             !.ts = timestamp]
                 ELSE IF req[j].user = u THEN [req[j] EXCEPT !.fresh = FALSE]
                 ELSE req[j]]
    /\ UNCHANGED <<now, vector_store_path, disk, job, lastWrite, restVars>>

\* The except clause of lines 237-241: every exception, an HTTPException of
\* the try block included, leaves as HTTPException(500).
Abort(i, cause) ==
    /\ pc' = [pc EXCEPT ![i] = "failed"]
    /\ req' = [req EXCEPT ![i].err = cause]

\* A failing load that has already opened the index directory.
LoadFail_opened(i, cause) ==
    /\ LoopFree
    /\ pc[i] = "loading"
    /\ Abort(i, cause)
    /\ disk' = [disk EXCEPT ![new_vs_path(i)] = IF @ = "absent" THEN "partial" ELSE @]
    /\ UNCHANGED <<now, vector_store_path, job, lastWrite, restVars>>

\* Lines 166-206 raise: invalid URL or upload, load_documents raises, no
\* documents, no chunks.  Nothing has been created yet.
LoadFail(i, cause) ==
    /\ LoopFree
    /\ pc[i] = "loading"
    /\ Abort(i, cause)
    /\ UNCHANGED <<now, vector_store_path, disk, job, lastWrite, restVars>>

\* Bookkeeping for the claims: a job that is under way for user u when an
\* ingestion for u opens an index directory is no longer quiet.
Disturb(j, u) ==
    IF j.user = u /\ j.st \in {"iter", "sleep", "try"} THEN [j EXCEPT !.quiet = FALSE] ELSE j

\* Lines 165-212: the documents are loaded and split into n batches of
\* chunks, and Chroma(persist_directory = new_vs_path) opens the directory,
\* creating it when it is not there.
LoadOk(i, n) ==
    /\ LoopFree
    /\ pc[i] = "loading"
    /\ pc' = [pc EXCEPT ![i] = "building"]
    /\ req' = [req EXCEPT ![i].nb = n]
    /\ disk' = [disk EXCEPT ![new_vs_path(i)] = IF @ = "absent" THEN "partial" ELSE @]
    /\ job' = [d \in JobIds |-> Disturb(job[d], req[i].user)]
    /\ UNCHANGED <<now, vector_store_path, lastWrite, restVars>>

\* Lines 214-217, one batch: vector_store.add_documents(batch) returns.  A
\* directory removed under the open client stays removed.
AddBatch(i) ==
    /\ pc[i] = "building"
    /\ req[i].bi < req[i].nb
    /\ req' = [req EXCEPT ![i].bi = @ + 1]
    /\ disk' = [disk EXCEPT ![new_vs_path(i)] = IF @ = "absent" THEN "absent" ELSE "partial"]
    /\ UNCHANGED <<now, vector_store_path, pc, job, lastWrite, restVars>>

\* AddBatchFail with the pointer unset on the way out.
AddBatchFail_unset(i) ==
    /\ pc[i] = "building"
    /\ req[i].bi < req[i].nb
    /\ Abort(i, "embed")
    /\ vector_store_path' = [vector_store_path EXCEPT ![req[i].user] = NoPath]
    /\ UNCHANGED <<now, disk, job, lastWrite, restVars>>

\* Lines 214-217, one batch: vector_store.add_documents(batch) raises.
AddBatchFail(i) ==
    /\ pc[i] = "building"
    /\ req[i].bi < req[i].nb
    /\ Abort(i, "embed")
    /\ UNCHANGED <<now, vector_store_path, disk, job, lastWrite, restVars>>

\* Line 219: vector_store.persist() returns.  With the directory removed
\* under the client, persist either writes nothing (chromadb >= 0.4) or
\* creates the directory again and writes the index (chromadb 0.3).
Persist(i, recreate) ==
    /\ pc[i] = "building"
    /\ req[i].bi = req[i].nb
    /\ pc' = [pc EXCEPT ![i] = "persisted"]
    /\ disk' = [disk EXCEPT ![new_vs_path(i)] =
                  IF @ = "absent" /\ ~recreate THEN "absent" ELSE "complete"]
    /\ UNCHANGED <<now, vector_store_path, req, job, lastWrite, restVars>>

\* Line 219: vector_store.persist() raises.
PersistFail(i) ==
    /\ pc[i] = "building"
    /\ req[i].bi = req[i].nb
    /\ Abort(i, "persist")
    /\ UNCHANGED <<now, vector_store_path, disk, job, lastWrite, restVars>>

\* asyncio.create_task(cleanup_vector_store_resources(old_vector_store_path))
CleanupTask(i) ==
    [NoJob EXCEPT !.st = "iter", !.user = req[i].user,
                  !.items = {old_vector_store_path(i)}]

\* asyncio.create_task(force_delete_old_vector_stores(str(user['_id']), new_vs_path))
SweepTask(i) ==
    [NoJob EXCEPT !.st = "new", !.user = req[i].user, !.excl = new_vs_path(i)]

\* Lines 221-225: when the request's old path exists, both tasks are
\* created; they start to run at the next await.
Schedule(i) ==
    /\ pc[i] = "persisted"
    /\ pc' = [pc EXCEPT ![i] = "updating"]
    /\ IF exists(old_vector_store_path(i))
       THEN /\ job' = [job EXCEPT ![<<"cleanup", i>>] = CleanupTask(i),
                                  ![<<"sweep", i>>] = SweepTask(i)]
            /\ req' = [req EXCEPT ![i].sched = TRUE]
       ELSE UNCHANGED <<job, req>>
    /\ UNCHANGED <<now, vector_store_path, disk, lastWrite, restVars>>

\* UpdateOk made to wait for the cleanup task it created.
UpdateOk_await(i) ==
    /\ pc[i] = "updating"
    /\ job[<<"cleanup", i>>].st \in {"none", "done"}
    /\ vector_store_path' = [vector_store_path EXCEPT ![req[i].user] = new_vs_path(i)]
    /\ lastWrite' = [lastWrite EXCEPT ![req[i].user] = i]
    /\ pc' = [pc EXCEPT ![i] = "done"]
    /\ req' = [req EXCEPT ![i].fresh = TRUE, ![i].ret = new_vs_path(i)]
    /\ UNCHANGED <<now, disk, job, restVars>>

\* UpdateOk as a compare-and-set on the value the request read: the first
\* writer wins.
UpdateOk_firstWins(i) ==
    /\ pc[i] = "updating"
    /\ vector_store_path' =
          IF vector_store_path[req[i].user] = old_vector_store_path(i)
          THEN [vector_store_path EXCEPT ![req[i].user] = new_vs_path(i)]
          ELSE vector_store_path
    /\ lastWrite' = [lastWrite EXCEPT ![req[i].user] = i]
    /\ pc' = [pc EXCEPT ![i] = "done"]
    /\ req' = [req EXCEPT ![i].fresh = TRUE, ![i].ret = new_vs_path(i)]
    /\ UNCHANGED <<now, disk, job, restVars>>

\* Lines 228-235: update_one sets vector_store_path to new_vs_path and the
\* call returns new_vs_path.
UpdateOk(i) ==
    /\ pc[i] = "updating"
    /\ vector_store_path' = [vector_store_path EXCEPT ![req[i].user] = new_vs_path(i)]
    /\ lastWrite' = [lastWrite EXCEPT ![req[i].user] = i]
    /\ pc' = [pc EXCEPT ![i] = "done"]
    /\ req' = [req EXCEPT ![i].fresh = TRUE, ![i].ret = new_vs_path(i)]
    /\ UNCHANGED <<now, disk, job, restVars>>

\* Lines 228-232: get_users_collection or update_one raises.
UpdateFail(i) ==
    /\ pc[i] = "updating"
    /\ Abort(i, "update")
    /\ UNCHANGED <<now, vector_store_path, disk, job, lastWrite, restVars>>

\* ------------------------------------------------------- detached jobs
\* cleanup_old_knowledge_bases: the endpoint is called for user u with the
\* user record read by get_current_user; its vector_store_path is the
\* exclude_current_path of the sweep.
SweepRequest(k, u) ==
    /\ LoopFree
    /\ job[<<"endpoint", k>>].st = "none"
    /\ job' = [job EXCEPT ![<<"endpoint", k>>] =
                 [NoJob EXCEPT !.st = "new", !.user = u, !.excl = vector_store_path[u]]]
    /\ UNCHANGED <<now, vector_store_path, disk, pc, req, lastWrite, restVars>>

\* Lines 141-147: the entries of os.listdir(VECTOR_STORE_DIR) the loop of
\* force_delete_old_vector_stores hands to cleanup_vector_store_resources.
SweepItems(u, excl) ==
    {p \in Paths : exists(p) /\ ~(excl # NoPath /\ p = excl) /\ matches(p, u)}

\* A job with nothing left to do has finished.
Settle(j) == IF j.items = {} /\ j.cur = NoPath THEN [j EXCEPT !.st = "done"] ELSE j

\* force_delete_old_vector_stores starts: os.listdir is read once.
SweepList(d) ==
    /\ LoopFree
    /\ job[d].st = "new"
    /\ job' = [job EXCEPT ![d] =
                 Settle([job[d] EXCEPT !.st = "iter",
                                       !.items = SweepItems(job[d].user, job[d].excl)])]
    /\ UNCHANGED <<now, vector_store_path, disk, pc, req, lastWrite, restVars>>

\* Lines 72-80: cleanup_vector_store_resources(p) for the next entry: it
\* returns at once when p does not exist, and otherwise sleeps 2 s and hands
\* p to safe_delete_directory in the executor.
JobNext(d, p) ==
    /\ LoopFree
    /\ job[d].st = "iter"
    /\ p \in job[d].items
    /\ job' = [job EXCEPT ![d] =
                 IF exists(p)
                 THEN [job[d] EXCEPT !.st = "sleep", !.cur = p, !.items = @ \ {p}]
                 ELSE Settle([job[d] EXCEPT !.items = @ \ {p}])]
    /\ UNCHANGED <<now, vector_store_path, disk, pc, req, lastWrite, restVars>>

\* The job is through with its current entry; failed records a False of
\* safe_delete_directory.
ItemDone(j, ok) ==
    Settle([j EXCEPT !.st = "iter", !.cur = NoPath, !.att = 0,
                     !.failed = @ \/ ~ok])

\* Lines 47-50: safe_delete_directory is entered in an executor thread and
\* returns True when the path does not exist.
DeleteEnter(d) ==
    /\ job[d].st = "sleep"
    /\ job' = [job EXCEPT ![d] =
                 IF exists(job[d].cur) THEN [job[d] EXCEPT !.st = "try"]
                 ELSE ItemDone(job[d], TRUE)]
    /\ UNCHANGED <<now, vector_store_path, disk, pc, req, lastWrite, restVars>>

\* Lines 53-56: shutil.rmtree(path) removes the directory; return True.
DeleteAttemptOk(d) ==
    /\ job[d].st = "try"
    /\ exists(job[d].cur)
    /\ disk' = [disk EXCEPT ![job[d].cur] = "absent"]
    /\ job' = [job EXCEPT ![d] = ItemDone([job[d] EXCEPT !.removed = @ \cup {job[d].cur}], TRUE)]
    /\ UNCHANGED <<now, vector_store_path, pc, req, lastWrite, restVars>>

\* DeleteAttemptFail with the last failed attempt reported as True.
DeleteAttemptFail_swallow(d, torn) ==
    /\ job[d].st = "try"
    /\ disk' = [disk EXCEPT ![job[d].cur] = IF @ # "absent" /\ torn THEN "partial" ELSE @]
    /\ job' = [job EXCEPT ![d] =
                 IF job[d].att + 1 < max_retries
                 THEN [job[d] EXCEPT !.att = @ + 1]
                 ELSE ItemDone(job[d], TRUE)]
    /\ UNCHANGED <<now, vector_store_path, pc, req, lastWrite, restVars>>

\* Lines 57-70: shutil.rmtree(path) raises (a lock, or the path is gone by
\* now); the attempt counts, and the last one returns False.  An rmtree that
\* raises may have removed part of the tree.
DeleteAttemptFail(d, torn) ==
    /\ job[d].st = "try"
    /\ disk' = [disk EXCEPT ![job[d].cur] = IF @ # "absent" /\ torn THEN "partial" ELSE @]
    /\ job' = [job EXCEPT ![d] =
                 IF job[d].att + 1 < max_retries
                 THEN [job[d] EXCEPT !.att = @ + 1]
                 ELSE ItemDone(job[d], FALSE)]
    /\ UNCHANGED <<now, vector_store_path, pc, req, lastWrite, restVars>>

Next ==
    \/ Tick
    \/ \E i \in Procs, u \in Tenants : Begin(i, u)
    \/ \E i \in Procs, c \in {"invalid", "load", "nodocs", "nochunks"} : LoadFail(i, c)
    \/ \E i \in Procs, n \in 1..MaxBatches : LoadOk(i, n)
    \/ \E i \in Procs : AddBatch(i)
    \/ \E i \in Procs : AddBatchFail(i)
    \/ \E i \in Procs, r \in BOOLEAN : Persist(i, r)
    \/ \E i \in Procs : PersistFail(i)
    \/ \E i \in Procs : Schedule(i)
    \/ \E i \in Procs : UpdateOk(i)
    \/ \E i \in Procs : UpdateFail(i)
    \/ \E k \in 1..NumSweepReqs, u \in Tenants : SweepRequest(k, u)
    \/ \E d \in JobIds : SweepList(d)
    \/ \E d \in JobIds, p \in Paths : JobNext(d, p)
    \/ \E d \in JobIds : DeleteEnter(d)
    \/ \E d \in JobIds : DeleteAttemptOk(d)
    \/ \E d \in JobIds, t \in BOOLEAN : DeleteAttemptFail(d, t)

Spec == Init /\ [][Next]_vars

\* ------------------------------------------------------------- claims
\* The user's pointer names a directory that is on disk.
Active(u) == vector_store_path[u] # NoPath /\ exists(vector_store_path[u])

\* Job d removes directory p in this step (a successful shutil.rmtree).
Removes(d, p) ==
    /\ job[d].st = "try"
    /\ job[d].cur = p
    /\ job'[d] # job[d]
    /\ disk[p] # "absent"
    /\ disk'[p] = "absent"

TaskIds == {"cleanup", "sweep"} \X Procs
SweepIds == ({"sweep"} \X Procs) \cup ({"endpoint"} \X (1..NumSweepReqs))

\* The tasks request i created have all finished (or it created none).
TasksFinished(i) ==
    \A k \in {"cleanup", "sweep"} : job[<<k, i>>].st \in {"none", "done"}

\* C1: after create_or_update_vector_store has returned a path for a user,
\* and until the next ingestion for that user begins, the user's
\* vector_store_path is set and names a directory that exists on disk.
C1_ActiveAfterReturn ==
    \A i \in Procs :
        (pc[i] = "done" /\ req[i].fresh) => Active(req[i].user)

\* C2: the tasks an ingestion schedules remove the directory of the prior
\* version (a path other than the new one) only after that ingestion's
\* pointer write has completed, never while vector_store_path equals it.
C2_RemovedOnlyAfterPointerWrite ==
    [][\A i \in Procs, k \in {"cleanup", "sweep"} :
          (/\ Removes(<<k, i>>, old_vector_store_path(i))
           /\ old_vector_store_path(i) # new_vs_path(i))
          => (/\ pc[i] = "done"
              /\ vector_store_path[req[i].user] # old_vector_store_path(i))]_vars

\* No other request was given the directory path of request i.
OwnPath(i) ==
    /\ new_vs_path(i) # old_vector_store_path(i)
    /\ \A j \in Procs \ {i} : pc[j] = "idle" \/ new_vs_path(j) # new_vs_path(i)

\* C3: once a failed create_or_update_vector_store and every task it
\* scheduled have finished, the user's vector_store_path is absent or names
\* a directory that exists and holds a fully built and persisted index
\* (stated for a call that shares its directory path with no other call,
\* with no sweep requested through the endpoint).
C3_FailureLeavesValidPointer ==
    \A i \in Procs :
        (pc[i] = "failed" /\ TasksFinished(i) /\ OwnPath(i)
         /\ \A k \in 1..NumSweepReqs : job[<<"endpoint", k>>].st = "none") =>
            \/ vector_store_path[req[i].user] = NoPath
            \/ disk[vector_store_path[req[i].user]] = "complete"

\* C5: two ingestions for the same user are given different directory
\* paths, and the path given to an ingestion is not the user's active path.
C5_DistinctPaths ==
    /\ \A i, j \in Procs :
          (i # j /\ pc[i] # "idle" /\ pc[j] # "idle" /\ req[i].user = req[j].user)
              => new_vs_path(i) # new_vs_path(j)
    /\ \A i \in Procs :
          pc[i] = "loading" => vector_store_path[req[i].user] # new_vs_path(i)

\* C6: the user's vector_store_path never equals the path of a version whose
\* build is in progress or has aborted.
C6_PointerOnlyToFinishedBuild ==
    \A i \in Procs :
        (pc[i] = "building" \/ (pc[i] = "failed" /\ req[i].err \in {"embed", "persist"}))
            => vector_store_path[req[i].user] # new_vs_path(i)

\* C7: force_delete_old_vector_stores never removes the directory that is
\* the user's vector_store_path at the moment of removal, nor the excluded
\* path.
C7_SweepSparesActive ==
    [][\A d \in SweepIds, p \in Paths :
          Removes(d, p) => (vector_store_path[p[1]] # p /\ p # job[d].excl)]_vars

\* C4: when add_documents raises on a batch, the call ends with an error in
\* that step, leaving vector_store_path, the prior directory and the jobs
\* as they were; a call that failed so has scheduled no task, written no
\* pointer and returned no path.
C4_EmbedFailureChangesNothing ==
    [][\A i \in Procs :
          /\ (/\ pc[i] = "building"
              /\ req[i].bi < req[i].nb
              /\ req'[i].bi = req[i].bi
              /\ pc'[i] # "building")
             => (/\ pc'[i] = "failed"
                 /\ req'[i].err = "embed"
                 /\ vector_store_path' = vector_store_path
                 /\ (exists(old_vector_store_path(i))
                       => disk'[old_vector_store_path(i)] # "absent")
                 /\ job' = job)
          /\ (pc'[i] = "failed" /\ req'[i].err = "embed")
             => (/\ ~req'[i].sched
                 /\ req'[i].ret = NoPath
                 /\ lastWrite'[req'[i].user] # i
                 /\ \A k \in {"cleanup", "sweep"} : job'[<<k, i>>].st = "none")]_vars

\* A call failed on its second batch; the prior version is still the pointer
\* and still on disk.
C4_Witness ==
    \E i \in Procs :
        /\ pc[i] = "failed"
        /\ req[i].err = "embed"
        /\ req[i].bi >= 1
        /\ old_vector_store_path(i) # NoPath
        /\ old_vector_store_path(i) # new_vs_path(i)
        /\ vector_store_path[req[i].user] = old_vector_store_path(i)
        /\ disk[old_vector_store_path(i)] = "complete"
        /\ disk[new_vs_path(i)] = "partial"

\* C8: the pointer update and the return never wait for the deletion; once
\* returned, the result is new_vs_path whatever the tasks do later; and a
\* safe_delete_directory that gives up leaves the directory on disk and
\* changes no request.
C8_ReturnIndependentOfDeletion ==
    [][\A i \in Procs :
          /\ (pc[i] = "updating" => ENABLED UpdateOk(i))
          /\ (pc[i] = "done"
                => (/\ req[i].ret = new_vs_path(i)
                    /\ req[i].err = "none"
                    /\ pc'[i] = "done"
                    /\ req'[i].ret = req[i].ret
                    /\ req'[i].err = req[i].err))
          /\ \A k \in {"cleanup", "sweep"} :
                (job'[<<k, i>>].failed /\ ~job[<<k, i>>].failed)
                   => (/\ pc' = pc
                       /\ (exists(job[<<k, i>>].cur)
                             => disk'[job[<<k, i>>].cur] # "absent"))]_vars

\* A call has returned its path, and its cleanup task then gave up after
\* max_retries attempts with the prior directory still on disk.
C8_Witness ==
    \E i \in Procs :
        /\ pc[i] = "done"
        /\ req[i].ret = new_vs_path(i)
        /\ job[<<"cleanup", i>>].st = "done"
        /\ job[<<"cleanup", i>>].failed
        /\ job[<<"sweep", i>>].st = "new"
        /\ exists(old_vector_store_path(i))
        /\ old_vector_store_path(i) # new_vs_path(i)

\* Sweep d finishes in this step without a failed deletion, with the
\* user's pointer as its excluded path.
SweepCompletes(d) ==
    /\ job[d].st # "done"
    /\ job'[d].st = "done"
    /\ ~job'[d].failed
    /\ job'[d].excl = vector_store_path'[job'[d].user]

\* No directory of user u other than the pointer is on disk in the next state.
OnlyActiveLeft(u) ==
    \A p \in Paths :
        (matches(p, u) /\ disk'[p] # "absent") => p = vector_store_path'[u]

\* C9 as claimed: when a sweep with the ACTIVE path excluded completes
\* without a failed deletion, the only directory of the user left on disk is
\* the ACTIVE one.
C9_SweepLeavesOnlyActive ==
    [][\A d \in SweepIds : SweepCompletes(d) => OnlyActiveLeft(job'[d].user)]_vars

\* C9 amended: the same, provided no ingestion for the user has opened an
\* index directory since the sweep listed the index root.
C9_QuietSweepLeavesOnlyActive ==
    [][\A d \in SweepIds :
          (SweepCompletes(d) /\ job'[d].quiet) => OnlyActiveLeft(job'[d].user)]_vars

\* A cleanup task gave up on the prior directory, and a sweep that excluded
\* the ACTIVE path has removed it: only the ACTIVE directory is left.
C9_Witness ==
    \E d \in SweepIds, c \in TaskIds :
        /\ job[d].st = "done"
        /\ ~job[d].failed
        /\ job[d].quiet
        /\ job[d].removed # {}
        /\ job[d].excl = vector_store_path[job[d].user]
        /\ Active(job[d].user)
        /\ job[c].st = "done"
        /\ job[c].failed
        /\ job[c].user = job[d].user
        /\ \A p \in Paths : exists(p) => p = vector_store_path[job[d].user]

\* C10: an ingestion is never held back by another one for the same user
\* (a free event loop lets it begin and load), and the user's
\* vector_store_path is the path of the request whose update landed last.
C10_LastWriterWins ==
    /\ \A i \in Procs, u \in Tenants :
          (LoopFree /\ pc[i] = "idle") => ENABLED Begin(i, u)
    /\ \A i \in Procs :
          (LoopFree /\ pc[i] = "loading") => ENABLED LoadOk(i, 1)
    /\ \A u \in Tenants :
          lastWrite[u] # 0 => vector_store_path[u] = new_vs_path(lastWrite[u])

\* Two ingestions for one user ran at the same time (each read the pointer
\* before the other wrote it), both returned, and the pointer is the path
\* of the one that wrote last, not of the other.
C10_Witness ==
    \E i, j \in Procs :
        /\ i # j
        /\ pc[i] = "done" /\ pc[j] = "done"
        /\ req[i].user = req[j].user
        /\ old_vector_store_path(i) = NoPath /\ old_vector_store_path(j) = NoPath
        /\ new_vs_path(i) # new_vs_path(j)
        /\ lastWrite[req[i].user] = i
        /\ vector_store_path[req[i].user] = new_vs_path(i)
        /\ exists(new_vs_path(j))

\* ================================================================ queries
\* ------------------------------------------------------------------ bounds
\* Chunks the index hands to the retriever of one served question.
MaxAnswerChunks == 4
\* Chunks the index hands to the retriever when it is exercised alone.
MaxFetched == 11

\* ------------------------------------------------------- program constants
\* search_kwargs = {"k": 10, "lambda_mult": 0.6, "fetch_k": 20}
k == 10
fetch_k == 20
\* EmbeddingsFilter(similarity_threshold = 0.75), in hundredths
similarity_threshold == 75

Handlers == {"test_chatbot_query", "whatsapp_webhook"}

\* required_files of load_vector_store_safely
required_files == {"chroma.sqlite3", "chroma-collections.parquet",
                   "chroma-embeddings.parquet"}
\* What os.listdir of an index directory can name: the three artifacts and
\* the directory Chroma keeps its segment files in.
Files == required_files \cup {"segment"}

\* Cosine similarity of a chunk to the question, in hundredths: just below,
\* at and just above the threshold.
Sims == {similarity_threshold - 1, similarity_threshold, similarity_threshold + 1}

\* The sequences over S of length at most n.
SeqsUpTo(S, n) == UNION {[1..m -> S] : m \in 0..n}

\* load_vector_store_safely(vector_store_path): the exception it raises, or
\* "none" when it returns the store.  chroma_ok tells whether the Chroma
\* constructor and the probing similarity_search("test", k=1) go through.
load_vector_store_safely(state, files, chroma_ok) ==
    IF state # "present"
    THEN "ValueError: Vector store path does not exist"
    ELSE IF ~ \E f \in required_files : f \in files
    THEN "ValueError: Vector store appears to be incomplete or corrupted"
    ELSE IF ~ chroma_ok
    THEN "Chroma error"
    ELSE "none"

\* vector_store.as_retriever(search_type="mmr", k=10, fetch_k=20): cands is
\* the fetched chunks in the order MMR selects them, each chunk given by its
\* similarity to the question; the retriever hands back the first k.
mmr_retriever(cands) ==
    SubSeq(cands, 1, IF Len(cands) < k THEN Len(cands) ELSE k)

\* EmbeddingsFilter(similarity_threshold=0.75).compress_documents
EmbeddingsFilter(docs) ==
    SelectSeq(docs, LAMBDA d : d >= similarity_threshold)

\* The retriever with the MMR stage handing back fetch_k chunks.
create_advanced_retriever_fetch_k(cands) ==
    EmbeddingsFilter(SubSeq(cands, 1, IF Len(cands) < fetch_k THEN Len(cands) ELSE fetch_k))

\* create_advanced_retriever(...).get_relevant_documents(question)
create_advanced_retriever(cands) == EmbeddingsFilter(mmr_retriever(cands))

\* A question arrives at one of the two handlers, for a user whose record and
\* index directory are in any of the conditions the lifecycle can leave.
QueryInit ==
    /\ LifeInit
    /\ ChunkIdle
    /\ CrawlIdle
    /\ DeleteIdle
    /\ ClearIdle
    /\ BatchIdle
    /\ UploadIdle
    /\ SweepIdle
    /\ KeyIdle
    /\ handler \in Handlers
    /\ chatbot_active \in BOOLEAN
    /\ GROQ_API_KEY \in BOOLEAN
    /\ path_state \in {"unset", "missing", "present"}
    /\ existing_files \in (IF path_state = "present" THEN SUBSET Files ELSE {{}})
    /\ qpc = "entry"
    /\ vector_store = "none"
    /\ client = "none"
    /\ fetched = <<>>
    /\ compressed_docs = <<>>
    /\ raised = "none"
    /\ response = NoResponse
    /\ context = NoContext

\* raise HTTPException(status_code=..., detail=...)
HTTPException(status, detail) == [raised |-> TRUE, status |-> status, body |-> detail]
\* A reply the end user reads: {"answer": ...} or the WhatsApp message.
Answer(text) == [raised |-> FALSE, status |-> "200", body |-> text]

\* finally: if vector_store: close_vector_store(vector_store)
closed(vs) == IF vs = "open" THEN "closed" ELSE vs

\* The checks before the try block: chatbot.py lines 101-105, whatsapp.py
\* lines 172-173.
QueryEnter ==
    /\ qpc = "entry"
    /\ IF handler = "test_chatbot_query"
       THEN IF path_state = "unset"
            THEN /\ response' = HTTPException("400", "No knowledge base available")
                 /\ qpc' = "done"
            ELSE IF ~ chatbot_active
            THEN /\ response' = HTTPException("400", "Chatbot is not active")
                 /\ qpc' = "done"
            ELSE /\ qpc' = "load"
                 /\ UNCHANGED response
       ELSE IF path_state = "unset"
            THEN /\ response' = Answer("")
                 /\ qpc' = "done"
            ELSE /\ qpc' = "load"
                 /\ UNCHANGED response
    /\ UNCHANGED <<handler, client, context, chatbot_active, GROQ_API_KEY, path_state, existing_files,
                   vector_store, fetched, compressed_docs, raised, notQuery>>

\* except Exception followed by finally: test_chatbot_query raises a 500,
\* whatsapp_webhook answers with its apology (chatbot.py 149-154,
\* whatsapp.py 240-245).
Except(e) ==
    /\ raised' = e
    /\ vector_store' = closed(vector_store)
    /\ response' = IF handler = "test_chatbot_query"
                   THEN HTTPException("500", "Error processing query")
                   ELSE Answer("Sorry, I'm having trouble finding that information right now.")
    /\ qpc' = "done"

\* await run_in_executor(None, load_vector_store_safely, vector_store_path).
\* The Chroma error is raised by Chroma(...) at line 103, with no client
\* opened, or by the test search of line 108, with the client opened; the
\* handler's local stays None in both cases.
QueryLoad(chroma_ok, cands) ==
    /\ qpc = "load"
    /\ LET e == load_vector_store_safely(path_state, existing_files, chroma_ok)
       IN  IF e = "none"
           THEN /\ vector_store' = "open"
                /\ client' = "open"
                /\ fetched' = cands
                /\ qpc' = "retrieve"
                /\ UNCHANGED <<raised, response>>
           ELSE /\ Except(e)
                /\ client' \in IF e = "Chroma error" THEN {"none", "open"} ELSE {"none"}
                /\ UNCHANGED fetched
    /\ UNCHANGED <<handler, context, chatbot_active, GROQ_API_KEY, path_state, existing_files,
                   compressed_docs, notQuery>>

\* await run_in_executor(None, advanced_retriever.get_relevant_documents, q)
QueryRetrieve ==
    /\ qpc = "retrieve"
    /\ compressed_docs' = create_advanced_retriever(fetched)
    /\ qpc' = "answer"
    /\ UNCHANGED <<handler, client, context, chatbot_active, GROQ_API_KEY, path_state, existing_files,
                   vector_store, fetched, raised, response, notQuery>>

\* The retriever raises (the embedding model or the index fails).
QueryRetrieveFail ==
    /\ qpc = "retrieve"
    /\ Except("retrieval error")
    /\ client' = closed(client)
    /\ UNCHANGED <<handler, context, chatbot_active, GROQ_API_KEY, path_state, existing_files,
                   fetched, compressed_docs, notQuery>>

\* The slice that takes every chunk.
docs_text_all(docs) == docs

\* chatbot.py 121, whatsapp.py 199: the page contents of compressed_docs[:3],
\* which "\n\n".join puts one after the other.
docs_text(docs) == SubSeq(docs, 1, IF Len(docs) < 3 THEN Len(docs) ELSE 3)

\* The answer is produced, with the context chain.ainvoke is given
\* (chatbot.py 123-145, whatsapp.py 201-238): the fixed notice without GROQ_API_KEY, else the
\* chain's reply, or the except branch when the chain raises.
QueryAnswer(llm_ok) ==
    /\ qpc = "answer"
    /\ IF ~ GROQ_API_KEY
       THEN /\ response' = Answer("AI service is currently unavailable. Please try again later.")
            /\ vector_store' = closed(vector_store)
            /\ qpc' = "done"
            /\ UNCHANGED raised
       ELSE IF llm_ok
       THEN /\ response' = Answer("response.content")
            /\ vector_store' = closed(vector_store)
            /\ qpc' = "done"
            /\ UNCHANGED raised
       ELSE Except("chain error")
    /\ context' = IF GROQ_API_KEY
                  THEN [invoked |-> TRUE,
                        ShortConversation |-> handler = "whatsapp_webhook",
                        KnowledgeBase |-> docs_text(compressed_docs)]
                  ELSE context
    /\ client' = closed(client)
    /\ UNCHANGED <<handler, chatbot_active, GROQ_API_KEY, path_state, existing_files,
                   fetched, compressed_docs, notQuery>>

QueryNext ==
    \/ QueryEnter
    \/ \E chroma_ok \in BOOLEAN, cands \in SeqsUpTo(Sims, MaxAnswerChunks) :
           QueryLoad(chroma_ok, cands)
    \/ QueryRetrieve
    \/ QueryRetrieveFail
    \/ \E llm_ok \in BOOLEAN : QueryAnswer(llm_ok)

SpecQuery == QueryInit /\ [][QueryNext]_vars

\* C11: load_vector_store_safely returns a store only for an existing
\* directory that holds every one of the expected artifact files; otherwise
\* it raises.
C11_LoadsOnlyCompleteDirectory ==
    vector_store # "none" =>
        path_state = "present" /\ required_files \subseteq existing_files

\* The failures C13 is about: the index could not be loaded, or the retriever
\* raised.
LoadOrRetrieveFailures ==
    {"ValueError: Vector store path does not exist",
     "ValueError: Vector store appears to be incomplete or corrupted",
     "Chroma error", "retrieval error"}

\* C13: in both handlers a failure while loading the index or retrieving
\* chunks ends in a normal response that carries a no-information message,
\* never in an error raised to the end user.
C13_FailureDegradesToMessage ==
    (qpc = "done" /\ raised \in LoadOrRetrieveFailures) =>
        /\ ~ response.raised
        /\ response.body = "Sorry, I'm having trouble finding that information right now."

\* ------------------------------------------------------------- retriever
\* The retriever applied to every candidate list up to MaxFetched chunks, on
\* an index either handler has just opened.
RetrieveInit ==
    /\ LifeInit
    /\ ChunkIdle
    /\ CrawlIdle
    /\ DeleteIdle
    /\ ClearIdle
    /\ BatchIdle
    /\ UploadIdle
    /\ SweepIdle
    /\ KeyIdle
    /\ handler = "test_chatbot_query"
    /\ chatbot_active = TRUE
    /\ GROQ_API_KEY = TRUE
    /\ path_state = "present"
    /\ existing_files = required_files
    /\ qpc = "retrieve"
    /\ vector_store = "open"
    /\ client = "open"
    /\ fetched \in SeqsUpTo(Sims, MaxFetched)
    /\ compressed_docs = <<>>
    /\ raised = "none"
    /\ response = NoResponse
    /\ context = NoContext

RetrieveNext ==
    \/ QueryRetrieve
    \/ QueryRetrieveFail

SpecRetrieve == RetrieveInit /\ [][RetrieveNext]_vars

\* s with every chunk whose similarity is below 0.75 removed, order kept.
RECURSIVE Survivors(_)
Survivors(s) ==
    IF s = <<>> THEN <<>>
    ELSE IF Head(s) < 75 THEN Survivors(Tail(s))
    ELSE <<Head(s)>> \o Survivors(Tail(s))

\* C14: the retriever returns the at most 10 MMR-selected candidates with the
\* chunks below 0.75 removed and the order of the others kept; when no
\* candidate reaches 0.75 the result is empty and nothing is raised.
C14_RetrieverResult ==
    qpc = "answer" =>
        LET selected == SubSeq(fetched, 1, IF Len(fetched) < 10 THEN Len(fetched) ELSE 10)
        IN  /\ Len(compressed_docs) <= 10
            /\ compressed_docs = Survivors(selected)
            /\ (\A i \in 1..Len(selected) : selected[i] < 75) => compressed_docs = <<>>
            /\ raised = "none"

\* More chunks fetched than MMR hands back, one of the first ten is below the
\* threshold and is dropped, others survive.
C14_Witness ==
    /\ qpc = "answer"
    /\ Len(fetched) > 10
    /\ \E i \in 1..10 : fetched[i] < 75
    /\ compressed_docs # <<>>

\* =============================================================== chunking
\* ------------------------------------------------------------------ bounds
\* Longest combined text, in characters.
MaxTextLen == 20100

\* The chunk size that ignores the upper limit of 1000.
calculate_dynamic_chunk_size_unbounded(n) ==
    LET size == IF n \div 20 < 200 THEN 200 ELSE n \div 20
    IN  <<size, (size * 15) \div 100>>

\* The size without its lower limit: min(1000, n // 20).
calculate_dynamic_chunk_size_nofloor(n) ==
    LET size == IF n \div 20 > 1000 THEN 1000 ELSE n \div 20
    IN  <<size, (size * 15) \div 100>>

\* calculate_dynamic_chunk_size(text) for a text of n characters.
\* min(1000, max(200, n // 20)), and int(size * 0.15): the float product
\* truncated, which is floor(15 * size / 100) for every size in 200..1000.
calculate_dynamic_chunk_size(n) ==
    LET m == IF n \div 20 < 200 THEN 200 ELSE n \div 20
        size == IF m > 1000 THEN 1000 ELSE m
    IN  <<size, (size * 15) \div 100>>

\* A text of any length up to MaxTextLen is about to be measured.
ChunkInit ==
    /\ LifeInit
    /\ QueryIdle
    /\ CrawlIdle
    /\ DeleteIdle
    /\ ClearIdle
    /\ BatchIdle
    /\ UploadIdle
    /\ SweepIdle
    /\ KeyIdle
    /\ total_chars \in 0..MaxTextLen
    /\ dynamic_chunk_size = 0
    /\ dynamic_chunk_overlap = 0

\* The call returns.
Calculate ==
    /\ dynamic_chunk_size = 0
    /\ dynamic_chunk_size' = calculate_dynamic_chunk_size(total_chars)[1]
    /\ dynamic_chunk_overlap' = calculate_dynamic_chunk_size(total_chars)[2]
    /\ UNCHANGED <<total_chars, notChunk>>

ChunkNext == Calculate

SpecChunk == ChunkInit /\ [][ChunkNext]_vars

\* clamp(x, lo, hi)
clamp(x, lo, hi) == IF x < lo THEN lo ELSE IF x > hi THEN hi ELSE x

\* C15: chunkSize = clamp(floor(len / 20), 200, 1000), hence within 200..1000
\* (200 for 500 characters), and a longer text never gets a smaller chunkSize.
C15_ChunkSizeClamped ==
    dynamic_chunk_size # 0 =>
        /\ dynamic_chunk_size = clamp(total_chars \div 20, 200, 1000)
        /\ 200 <= dynamic_chunk_size /\ dynamic_chunk_size <= 1000
        /\ total_chars = 500 => dynamic_chunk_size = 200
        /\ dynamic_chunk_size <= calculate_dynamic_chunk_size(total_chars + 1)[1]

\* A text long enough for the upper limit to cut the size.
C15_Witness ==
    /\ dynamic_chunk_size = 1000
    /\ total_chars \div 20 > 1000

\* C16: the overlap is the integer nearest to 15% of the chunk size, i.e. at
\* most one half away from 0.15 * chunkSize.
C16_OverlapIsRounded ==
    dynamic_chunk_size # 0 =>
        LET d == 100 * dynamic_chunk_overlap - 15 * dynamic_chunk_size
        IN  -50 <= d /\ d <= 50

\* ========================================================== website loads
\* ------------------------------------------------------------------ bounds
\* Largest limit crawl_links is tried with, besides the one load_documents uses.
MaxLimit == 3
\* Most anchors with an href on one fetched page.
MaxLinks == 2

\* ------------------------------------------------------- program constants
\* urls = crawl_links(url, limit=6)
crawl_limit == 6

\* A URL is the sequence of the pieces of its text, so that a prefix of the
\* sequence is a prefix of the string: the scheme and a host, a further
\* piece of the host, then "/" and a path segment.
Seeds == {<<"http://a.com">>, <<"http://a.com", "/">>}

\* The href attributes a page can carry: root-relative, absolute on the
\* seed's host, absolute on a host whose name begins with the seed's host,
\* absolute on an unrelated host.
Hrefs == {<<"/", "p">>, <<"/", "q">>,
          <<"http://a.com", "/", "p">>,
          <<"http://a.com", ".evil.org", "/", "p">>,
          <<"http://b.com", "/", "p">>}

\* href.startswith(prefix)
startswith(href, prefix) ==
    Len(prefix) <= Len(href) /\ SubSeq(href, 1, Len(prefix)) = prefix

\* url.rstrip("/")
RECURSIVE rstrip(_)
rstrip(url) ==
    IF url # <<>> /\ url[Len(url)] = "/" THEN rstrip(SubSeq(url, 1, Len(url) - 1))
    ELSE url

\* Lines 49-51: the href as written, or start_url.rstrip("/") + href when it
\* starts with "/".
resolve(href) ==
    IF startswith(href, <<"/">>) THEN rstrip(start_url) \o href ELSE href

\* Lines 48-53 for the anchors of one page, in document order: the stack
\* after the hrefs that pass the test of line 52 have been appended.
RECURSIVE push_links(_, _, _)
push_links(stack, links, seen) ==
    IF links = <<>> THEN stack
    ELSE LET href == resolve(Head(links))
         IN  push_links(IF startswith(href, start_url) /\ href \notin seen
                        THEN Append(stack, href) ELSE stack,
                        Tail(links), seen)

\* len(text) > 50 keeps a page of the fallback loop
min_text == 50
\* Lengths of the text extracted from a fetched page.
TextLens == {min_text - 1, min_text, min_text + 1}

\* crawl_links(start_url, limit) is entered: lines 34-36.  The limit is the
\* one load_documents passes, or any limit up to MaxLimit.
CrawlInit ==
    /\ LifeInit
    /\ QueryIdle
    /\ ChunkIdle
    /\ DeleteIdle
    /\ ClearIdle
    /\ BatchIdle
    /\ UploadIdle
    /\ SweepIdle
    /\ KeyIdle
    /\ start_url \in Seeds
    /\ limit \in (0..MaxLimit) \cup {crawl_limit}
    /\ visited = {}
    /\ to_visit = <<start_url>>
    /\ all_links = <<>>
    /\ requested = <<>>
    /\ failed = {}
    /\ discovered = <<start_url>>
    /\ wpc = "crawl"
    /\ next_link = 0
    /\ texts = <<>>
    /\ documents = <<>>

\* while to_visit and len(all_links) < limit
looping == wpc = "crawl" /\ to_visit # <<>> /\ Len(all_links) < limit

\* The bottom of the stack.
top_oldest == to_visit[1]

\* url = to_visit.pop()
top == to_visit[Len(to_visit)]
popped == SubSeq(to_visit, 1, Len(to_visit) - 1)

\* The skip that leaves the visited URL on the stack.
CrawlSkip_stay ==
    /\ looping
    /\ top \in visited
    /\ UNCHANGED <<crawlVars, notCrawl>>

\* Lines 39-41: the popped URL was visited before.
CrawlSkip ==
    /\ looping
    /\ top \in visited
    /\ to_visit' = popped
    /\ UNCHANGED <<start_url, limit, texts, discovered, failed, visited, all_links, requested, wpc, next_link,
                   documents, notCrawl>>

\* The fetch that does not record the URL as visited.
CrawlFetch_forget(links) ==
    /\ looping
    /\ top \notin visited
    /\ requested' = Append(requested, top)
    /\ all_links' = Append(all_links, top)
    /\ to_visit' = push_links(popped, links, visited)
    /\ discovered' = discovered \o push_links(<<>>, links, visited)
    /\ UNCHANGED <<start_url, limit, texts, failed, visited, wpc, next_link, documents, notCrawl>>

\* Lines 39-53: the popped URL is fetched and its anchors are examined.
CrawlFetch(links) ==
    /\ looping
    /\ top \notin visited
    /\ visited' = visited \cup {top}
    /\ requested' = Append(requested, top)
    /\ all_links' = Append(all_links, top)
    /\ to_visit' = push_links(popped, links, visited')
    /\ discovered' = discovered \o push_links(<<>>, links, visited')
    /\ UNCHANGED <<start_url, limit, texts, failed, wpc, next_link, documents, notCrawl>>

\* The failed fetch whose URL is collected all the same.
CrawlFetchFail_collects ==
    /\ looping
    /\ top \notin visited
    /\ visited' = visited \cup {top}
    /\ requested' = Append(requested, top)
    /\ failed' = failed \cup {top}
    /\ all_links' = Append(all_links, top)
    /\ to_visit' = popped
    /\ UNCHANGED <<start_url, limit, texts, discovered, wpc, next_link, documents, notCrawl>>

\* Lines 39-45, 54-55: requests.get raises, the URL is skipped.
CrawlFetchFail ==
    /\ looping
    /\ top \notin visited
    /\ visited' = visited \cup {top}
    /\ requested' = Append(requested, top)
    /\ failed' = failed \cup {top}
    /\ to_visit' = popped
    /\ UNCHANGED <<start_url, limit, texts, discovered, all_links, wpc, next_link, documents, notCrawl>>

\* Line 56: return all_links.
CrawlReturn ==
    /\ wpc = "crawl"
    /\ ~ looping
    /\ wpc' = "crawled"
    /\ UNCHANGED <<start_url, limit, texts, discovered, failed, visited, to_visit, all_links, requested,
                   next_link, documents, notCrawl>>

\* Lines 82-84: PlaywrightURLLoader(urls).load() returns the documents of
\* the pages it could render.
Render(loaded) ==
    /\ wpc = "crawled"
    /\ limit = crawl_limit
    /\ documents' = SelectSeq(all_links, LAMBDA u : u \in loaded)
    /\ wpc' = "returned"
    /\ UNCHANGED <<start_url, limit, texts, discovered, failed, visited, to_visit, all_links, requested,
                   next_link, notCrawl>>

\* Lines 85-87: the loader raises, documents = [] and the fallback begins.
RenderFail ==
    /\ wpc = "crawled"
    /\ limit = crawl_limit
    /\ documents' = <<>>
    /\ next_link' = 1
    /\ wpc' = "fallback"
    /\ UNCHANGED <<start_url, limit, texts, discovered, failed, visited, to_visit, all_links, requested, notCrawl>>

\* Lines 97-107, one link: the page is fetched again and kept when its text
\* has more than 50 characters; len_text = 0 stands for a failed fetch.
FallbackFetch(len_text) ==
    /\ wpc = "fallback"
    /\ next_link <= Len(all_links)
    /\ documents' = IF len_text > min_text
                    THEN Append(documents, all_links[next_link]) ELSE documents
    /\ next_link' = next_link + 1
    /\ texts' = Append(texts, len_text)
    /\ UNCHANGED <<start_url, limit, discovered, failed, visited, to_visit, all_links, requested, wpc,
                   notCrawl>>

\* Line 111: return filter_complex_metadata(documents).
FallbackReturn ==
    /\ wpc = "fallback"
    /\ next_link > Len(all_links)
    /\ wpc' = "returned"
    /\ UNCHANGED <<start_url, limit, texts, discovered, failed, visited, to_visit, all_links, requested,
                   next_link, documents, notCrawl>>

CrawlNext ==
    \/ CrawlSkip
    \/ \E links \in SeqsUpTo(Hrefs, MaxLinks) : CrawlFetch(links)
    \/ CrawlFetchFail
    \/ CrawlReturn
    \/ \E loaded \in SUBSET {all_links[n] : n \in 1..Len(all_links)} : Render(loaded)
    \/ RenderFail
    \/ \E len_text \in TextLens \cup {0} : FallbackFetch(len_text)
    \/ FallbackReturn

SpecCrawl == CrawlInit /\ [][CrawlNext]_vars

\* crawl_links and load_documents are straight-line code run by one executor
\* thread, and requests.get has a timeout: a step that can be taken is taken.
SpecCrawlFair == CrawlInit /\ [][CrawlNext]_vars /\ WF_vars(CrawlNext)

\* s holds no element twice.
NoRepeat(s) == \A m, n \in 1..Len(s) : s[m] = s[n] => m = n

\* C17: crawl_links returns at most limit URLs, none of them twice, and
\* requests no URL more than once.
C17_CrawlBoundedAndDistinct ==
    /\ Len(all_links) <= limit
    /\ NoRepeat(all_links)
    /\ NoRepeat(requested)

\* The crawl returned because the limit was reached, with links still on the
\* stack, after a URL found a second time was skipped.
C17_Witness ==
    /\ wpc = "crawled"
    /\ limit >= 2
    /\ Len(all_links) = limit
    /\ to_visit # <<>>
    /\ Len(requested) > limit

\* Scheme, host and port of a URL: its text before the first "/" of the path.
origin(url) ==
    LET slashes == {n \in 1..Len(url) : url[n] = "/"}
    IN  IF slashes = {} THEN url
        ELSE SubSeq(url, 1, (CHOOSE n \in slashes : \A m \in slashes : n <= m) - 1)

\* C18: every URL crawl_links returns has the origin of the seed.
C18_SameOrigin ==
    \A n \in 1..Len(all_links) : origin(all_links[n]) = origin(start_url)

\* C12: when the seed URL cannot be fetched, load_documents does not return:
\* it fails with an error.
C12_UnreachableSeedFailsLoad ==
    (limit = crawl_limit /\ requested = <<start_url>> /\ all_links = <<>>) =>
        wpc # "returned"

\* ===================================================== directory deletion
\* The exceptions shutil.rmtree ends with: the two except clauses of
\* safe_delete_directory.
Raises == {"PermissionError", "Exception"}

\* safe_delete_directory(path) is called in an executor thread, for a path
\* that exists or not.
DeleteInit ==
    /\ LifeInit
    /\ QueryIdle
    /\ ChunkIdle
    /\ CrawlIdle
    /\ ClearIdle
    /\ BatchIdle
    /\ UploadIdle
    /\ SweepIdle
    /\ KeyIdle
    /\ target \in {"present", "absent"}
    /\ existed = "unknown"
    /\ attempt = 0
    /\ events = <<>>
    /\ success = "none"
    /\ dpc = "entry"

\* Lines 47-52: return True for a missing path, else gc.collect() and enter
\* the loop.
SafeDeleteEnter ==
    /\ dpc = "entry"
    /\ existed' = IF target = "present" THEN "yes" ELSE "no"
    /\ IF target = "absent"
       THEN /\ success' = "True"
            /\ dpc' = "done"
            /\ UNCHANGED events
       ELSE /\ events' = <<"gc">>
            /\ dpc' = "try"
            /\ UNCHANGED success
    /\ UNCHANGED <<target, attempt, notDelete>>

\* Lines 53-56: shutil.rmtree(path) removes the directory; return True.
RmtreeOk ==
    /\ dpc = "try"
    /\ target = "present"
    /\ target' = "absent"
    /\ events' = Append(events, "rmtree")
    /\ success' = "True"
    /\ dpc' = "done"
    /\ UNCHANGED <<existed, attempt, notDelete>>

\* The failed attempt that waits the delay after the last attempt too.
RmtreeRaise_sleeps(e) ==
    /\ dpc = "try"
    /\ e = "PermissionError" => target = "present"
    /\ IF attempt < max_retries - 1
       THEN /\ events' = Append(events, e)
            /\ dpc' = "sleep"
            /\ UNCHANGED success
       ELSE /\ events' = events \o <<e, "sleep">>
            /\ success' = "False"
            /\ dpc' = "done"
    /\ UNCHANGED <<target, existed, attempt, notDelete>>

\* Lines 57-70: shutil.rmtree(path) raises, a PermissionError for a locked
\* file or another exception (the path has gone meanwhile, for one); before
\* the last attempt the function goes to sleep, after it it returns False.
RmtreeRaise(e) ==
    /\ dpc = "try"
    /\ e = "PermissionError" => target = "present"
    /\ events' = Append(events, e)
    /\ IF attempt < max_retries - 1
       THEN /\ dpc' = "sleep"
            /\ UNCHANGED success
       ELSE /\ success' = "False"
            /\ dpc' = "done"
    /\ UNCHANGED <<target, existed, attempt, notDelete>>

\* Lines 60 and 67: time.sleep(delay), then the next iteration.
Sleep ==
    /\ dpc = "sleep"
    /\ events' = Append(events, "sleep")
    /\ attempt' = attempt + 1
    /\ dpc' = "try"
    /\ UNCHANGED <<target, existed, success, notDelete>>

\* Another deleter of the same path (the cleanup task and the sweep run side
\* by side) removes the directory.
Vanish ==
    /\ dpc \in {"entry", "try", "sleep"}
    /\ target = "present"
    /\ target' = "absent"
    /\ UNCHANGED <<existed, attempt, events, success, dpc, notDelete>>

DeleteNext ==
    \/ SafeDeleteEnter
    \/ RmtreeOk
    \/ \E e \in Raises : RmtreeRaise(e)
    \/ Sleep
    \/ Vanish

SpecDelete == DeleteInit /\ [][DeleteNext]_vars

\* The positions of the removal attempts among the events, and of those that
\* raised.
AttemptsAt == {n \in 1..Len(events) : events[n] \in Raises \cup {"rmtree"}}
RaisedAt == {n \in 1..Len(events) : events[n] \in Raises}

\* C20: safe_delete_directory makes at most 5 removal attempts; the first
\* attempt that succeeds is the last event and the call returns True; a path
\* missing at entry gives True without any attempt; False is returned
\* exactly when 5 attempts raised; the delay is slept after a failed attempt
\* that another attempt follows, and nowhere else.
C20_RetryLoop ==
    /\ Cardinality(AttemptsAt) <= 5
    /\ \A n \in 1..Len(events) :
           events[n] = "rmtree" => n = Len(events) /\ dpc = "done" /\ success = "True"
    /\ existed = "no" => dpc = "done" /\ success = "True" /\ AttemptsAt = {}
    /\ dpc = "done" => (success = "False" <=> Cardinality(RaisedAt) = 5)
    /\ dpc = "done" => success \in {"True", "False"}
    /\ \A n \in 1..Len(events) :
           events[n] = "sleep" =>
               /\ n - 1 \in RaisedAt
               /\ Cardinality({m \in RaisedAt : m < n}) < 5
               /\ dpc = "done" => n < Len(events)
               /\ n < Len(events) => n + 1 \in AttemptsAt
    /\ \A n \in RaisedAt : n < Len(events) => events[n + 1] = "sleep"

\* Two attempts raised, each followed by the delay, and the third removed
\* the directory.
C20_Witness ==
    /\ dpc = "done"
    /\ success = "True"
    /\ Cardinality(RaisedAt) = 2
    /\ events[Len(events)] = "rmtree"

\* ================================================= clearing a knowledge base
\* The directory VECTOR_STORE_DIR, as the set of the index directories it
\* can hold: those of every tenant.
VECTOR_STORE_DIR == Paths

\* os.path.dirname(path) of an index directory vs_<user>_<timestamp>: its
\* parent, the index root.
dirname(p) == VECTOR_STORE_DIR

\* A clear request arrives for one tenant, while the index root and the
\* users collection are in any condition ingestions can have left them in:
\* each tenant without a pointer or pointing at one of its own directories.
ClearInit ==
    /\ now = 0
    /\ pc = [i \in Procs |-> "idle"]
    /\ req = [i \in Procs |-> NoReq]
    /\ job = [d \in JobIds |-> NoJob]
    /\ lastWrite = [u \in Tenants |-> 0]
    /\ QueryIdle
    /\ ChunkIdle
    /\ CrawlIdle
    /\ DeleteIdle
    /\ BatchIdle
    /\ UploadIdle
    /\ SweepIdle
    /\ KeyIdle
    /\ disk \in [Paths -> {"absent", "partial", "complete"}]
    /\ vector_store_path \in [Tenants -> Paths \cup {NoPath}]
    /\ \A u \in Tenants : vector_store_path[u] # NoPath => matches(vector_store_path[u], u)
    /\ current_user \in Tenants
    /\ user = NoPath
    /\ kpc = "entry"

\* Line 514: user = await users_collection.find_one({"_id": ...}).
ClearFind ==
    /\ kpc = "entry"
    /\ user' = vector_store_path[current_user]
    /\ kpc' = "found"
    /\ UNCHANGED <<current_user, vector_store_path, disk, notClear>>

\* Lines 516-520: shutil.rmtree(os.path.dirname(user['vector_store_path']))
\* when the record has a path; it goes through.
ClearRmtree ==
    /\ kpc = "found"
    /\ disk' = IF user # NoPath
               THEN [p \in Paths |-> IF p \in dirname(user) THEN "absent" ELSE disk[p]]
               ELSE disk
    /\ kpc' = "removed"
    /\ UNCHANGED <<current_user, user, vector_store_path, notClear>>

\* Line 520: shutil.rmtree raises after removing part of the tree; nothing
\* catches it and the request ends without the update.
ClearRmtreeFail(gone, torn) ==
    /\ kpc = "found"
    /\ user # NoPath
    /\ \E p \in dirname(user) : exists(p)
    /\ disk' = [p \in Paths |-> IF p \in gone THEN "absent"
                                ELSE IF p \in torn /\ exists(p) THEN "partial"
                                ELSE disk[p]]
    /\ kpc' = "raised"
    /\ UNCHANGED <<current_user, user, vector_store_path, notClear>>

\* Lines 523-531: update_one with $unset of vector_store_path.
ClearUnset ==
    /\ kpc = "removed"
    /\ vector_store_path' = [vector_store_path EXCEPT ![current_user] = NoPath]
    /\ kpc' = "done"
    /\ UNCHANGED <<current_user, user, disk, notClear>>

ClearNext ==
    \/ ClearFind
    \/ ClearRmtree
    \/ \E gone \in SUBSET Paths, torn \in SUBSET Paths :
           gone \cap torn = {} /\ ClearRmtreeFail(gone, torn)
    \/ ClearUnset

SpecClear == ClearInit /\ [][ClearNext]_vars

\* C19: clear for tenant T removes T's index and leaves T without
\* vector_store_path; the directories and pointers of every other tenant
\* stay as they are; and no directory is removed while a tenant's pointer
\* references it.
C19_ClearTouchesOnlyItsTenant ==
    [][/\ kpc' = "done" =>
              /\ vector_store_path'[current_user] = NoPath
              /\ \A p \in Paths : matches(p, current_user) => disk'[p] = "absent"
       /\ \A u \in Tenants \ {current_user} :
              /\ vector_store_path'[u] = vector_store_path[u]
              /\ \A p \in Paths : matches(p, u) => disk'[p] = disk[p]
       /\ \A u \in Tenants :
              (exists(vector_store_path[u]) /\ vector_store_path'[u] = vector_store_path[u])
                  => disk'[vector_store_path[u]] = disk[vector_store_path[u]]
      ]_vars

\* C21: every removal attempt of safe_delete_directory, the first and each
\* retry, has a garbage-collection pass of its own before it: a pass lies
\* after the previous attempt (or the entry) and before the attempt.
C21_GcBeforeEachAttempt ==
    \A n \in AttemptsAt :
        \E m \in 1..(n - 1) :
            /\ events[m] = "gc"
            /\ \A a \in AttemptsAt : ~(m < a /\ a < n)

\* Directory p is the version some ingestion is building: created by that
\* call and not yet promoted by its pointer write.  The path is the call's
\* own, shared with no other call and different from the prior version's.
Building(p) ==
    \E i \in Procs :
        /\ pc[i] \in {"building", "persisted", "updating"}
        /\ new_vs_path(i) = p
        /\ OwnPath(i)

\* C22: a version goes NONE, BUILDING, ACTIVE, STALE, DELETED in that order:
\* no job deletes a directory that is being built or that is the tenant's
\* pointer, and the pointer is never set to a directory that has been
\* deleted.
C22_VersionOrder ==
    [][\A p \in Paths :
          /\ (\E d \in JobIds : Removes(d, p)) =>
                 ~ Building(p) /\ vector_store_path[p[1]] # p
          /\ (vector_store_path'[p[1]] = p /\ vector_store_path[p[1]] # p) =>
                 exists(p)]_vars

\* ============================================================ batch loop
\* ------------------------------------------------------------------ bounds
\* Most chunks the splitter produces.
MaxChunks == 50

\* ------------------------------------------------------- program constants
\* config.BATCH_SIZE
BATCH_SIZE == 16

\* The slice that is one chunk short.
batch_short(docs, start) ==
    SubSeq(docs, start + 1,
           IF start + BATCH_SIZE - 1 < Len(docs) THEN start + BATCH_SIZE - 1 ELSE Len(docs))

\* split_docs[i:i + BATCH_SIZE], a Python slice: it ends at the end of the
\* list when fewer than BATCH_SIZE chunks are left.
batch(docs, start) ==
    SubSeq(docs, start + 1,
           IF start + BATCH_SIZE < Len(docs) THEN start + BATCH_SIZE ELSE Len(docs))

\* The loop of line 214 is entered with the chunks of a non-empty split
\* (line 205 raises on an empty one); a chunk is named by its rank.
BatchInit ==
    /\ LifeInit
    /\ QueryIdle
    /\ ChunkIdle
    /\ CrawlIdle
    /\ DeleteIdle
    /\ ClearIdle
    /\ UploadIdle
    /\ SweepIdle
    /\ KeyIdle
    /\ split_docs \in {[r \in 1..n |-> r] : n \in 1..MaxChunks}
    /\ offset = 0
    /\ batches = <<>>
    /\ bpc = "loop"

\* Lines 214-217, one iteration: the batch is sliced and add_documents
\* returns.
AddDocuments ==
    /\ bpc = "loop"
    /\ offset < Len(split_docs)
    /\ batches' = Append(batches, batch(split_docs, offset))
    /\ offset' = offset + BATCH_SIZE
    /\ UNCHANGED <<split_docs, bpc, notBatch>>

\* Lines 214-217: add_documents raises on the batch it was given.
AddDocumentsFail ==
    /\ bpc = "loop"
    /\ offset < Len(split_docs)
    /\ batches' = Append(batches, batch(split_docs, offset))
    /\ bpc' = "raised"
    /\ UNCHANGED <<split_docs, offset, notBatch>>

\* Line 219: the range is exhausted, vector_store.persist() is next.
BatchesDone ==
    /\ bpc = "loop"
    /\ offset >= Len(split_docs)
    /\ bpc' = "persist"
    /\ UNCHANGED <<split_docs, offset, batches, notBatch>>

BatchNext ==
    \/ AddDocuments
    \/ AddDocumentsFail
    \/ BatchesDone

SpecBatch == BatchInit /\ [][BatchNext]_vars

\* The sequences of s, one after the other.
RECURSIVE Concat(_)
Concat(s) == IF s = <<>> THEN <<>> ELSE Head(s) \o Concat(Tail(s))

\* C23: a build of n >= 1 chunks calls add_documents ceil(n/16) times; the
\* batches in call order make up the chunk sequence; every batch is
\* non-empty and every batch but the last has 16 chunks.
C23_Batching ==
    bpc = "persist" =>
        /\ 16 * Len(batches) >= Len(split_docs)
        /\ 16 * (Len(batches) - 1) < Len(split_docs)
        /\ Concat(batches) = split_docs
        /\ \A b \in 1..Len(batches) :
               /\ batches[b] # <<>>
               /\ b < Len(batches) => Len(batches[b]) = 16

\* A build whose last batch is shorter than the two before it.
C23_Witness ==
    /\ bpc = "persist"
    /\ Len(batches) = 3
    /\ Len(batches[3]) < 16

\* ------------------------------------------------------ claims: empty load
\* The ingestion of process i has ended on "no documents" or "no chunks".
EndedEmpty(i) == pc[i] = "failed" /\ req[i].err \in {"nodocs", "nochunks"}

\* C24: an ingestion that finds no documents, or no chunks, ends with an
\* error in a step that creates no index directory, leaves every tenant's
\* vector_store_path alone and schedules nothing; it has scheduled no
\* deletion and written no pointer before either.
C24_EmptyLoadTouchesNothing ==
    [][\A i \in Procs :
          (pc[i] = "loading" /\ EndedEmpty(i)') =>
              /\ disk' = disk
              /\ vector_store_path' = vector_store_path
              /\ job' = job
              /\ ~ req'[i].sched
              /\ \A t \in {"cleanup", "sweep"} : job'[<<t, i>>].st = "none"
              /\ req'[i].ret = NoPath]_vars

\* An ingestion has ended on an empty load while its tenant has an index.
C24_Witness ==
    \E i \in Procs :
        /\ EndedEmpty(i)
        /\ req[i].snap # NoPath
        /\ vector_store_path[req[i].user] = req[i].snap

\* ================================================================ uploads
\* str.lower() on the extensions the uploads carry.
lower(t) == IF t = ".PDF" THEN ".pdf" ELSE t

\* valid_url (file_processing.py 24-30): all([result.scheme, result.netloc])
valid_url(url) == url.scheme # "" /\ url.netloc # ""

allowed_types == {".txt", ".pdf", ".docx", ".csv"}

\* filename.lower().endswith(ext)
endswith(filename, ext) == filename # <<>> /\ lower(filename[Len(filename)]) = ext

\* An exception that is not an HTTPException.
Exception(detail) == [raised |-> TRUE, status |-> "none", body |-> detail]

UploadFiles ==
    {NoFile} \cup
    {[given |-> TRUE, filename |-> f] :
        f \in {<<>>, <<"a", ".txt">>, <<"a", ".PDF">>, <<"a", ".docx">>,
               <<"a", ".csv">>, <<"a", ".exe">>}}

UploadUrls ==
    {NoUrl} \cup
    {[given |-> TRUE, scheme |-> s, netloc |-> n] : s \in {"", "http"}, n \in {"", "a.com"}}

\* A request arrives at POST /chatbot/knowledge-base.
UploadInit ==
    /\ LifeInit
    /\ QueryIdle
    /\ ChunkIdle
    /\ CrawlIdle
    /\ DeleteIdle
    /\ ClearIdle
    /\ BatchIdle
    /\ SweepIdle
    /\ KeyIdle
    /\ knowledge_file \in UploadFiles
    /\ knowledge_url \in UploadUrls
    /\ file_type = "none"
    /\ upc = "entry"
    /\ exc = NoResponse
    /\ thrown = NoResponse
    /\ calls = 0
    /\ reply = NoResponse
    /\ temp_file_path = FALSE
    /\ temp_file = "none"

\* raise e inside a try block: the except clause named by handler is next.
Raise(e, handler_pc) ==
    /\ exc' = e
    /\ thrown' = e
    /\ upc' = handler_pc

\* chatbot.py 24-28, before the try: neither or both sources.
UploadCheck ==
    /\ upc = "entry"
    /\ IF ~ knowledge_file.given /\ ~ knowledge_url.given
       THEN /\ reply' = HTTPException("400", "Either file or URL must be provided")
            /\ thrown' = reply'
            /\ upc' = "done"
       ELSE IF knowledge_file.given /\ knowledge_url.given
       THEN /\ reply' = HTTPException("400", "Provide either file or URL, not both")
            /\ thrown' = reply'
            /\ upc' = "done"
       ELSE /\ upc' = "try"
            /\ UNCHANGED <<reply, thrown>>
    /\ UNCHANGED <<knowledge_file, knowledge_url, temp_file_path, temp_file, file_type, exc, calls, notUpload>>

\* chatbot.py 30-60: the checks inside the try, up to the call of
\* create_or_update_vector_store.
UploadValidate ==
    /\ upc = "try"
    /\ IF knowledge_file.given
       THEN IF knowledge_file.filename = <<>>
            THEN /\ Raise(HTTPException("400", "No file provided"), "except")
                 /\ UNCHANGED <<file_type, calls>>
            ELSE IF ~ \E ext \in allowed_types : endswith(knowledge_file.filename, ext)
            THEN /\ Raise(HTTPException("400", "Invalid file type"), "except")
                 /\ UNCHANGED <<file_type, calls>>
            ELSE /\ file_type' = IF endswith(knowledge_file.filename, ".txt") THEN "text"
                                 ELSE IF endswith(knowledge_file.filename, ".pdf") THEN "pdf"
                                 ELSE IF endswith(knowledge_file.filename, ".docx") THEN "docx"
                                 ELSE "csv"
                 /\ calls' = calls + 1
                 /\ upc' = "create"
                 /\ UNCHANGED <<exc, thrown>>
       ELSE IF ~ valid_url(knowledge_url)
            THEN /\ Raise(HTTPException("400", "Invalid URL provided"), "except")
                 /\ UNCHANGED <<file_type, calls>>
            ELSE /\ file_type' = "website"
                 /\ calls' = calls + 1
                 /\ upc' = "create"
                 /\ UNCHANGED <<exc, thrown>>
    /\ UNCHANGED <<knowledge_file, knowledge_url, temp_file_path, temp_file, reply, notUpload>>

\* vector_store.py 174-181, an uploaded file: NamedTemporaryFile(delete=False)
\* creates the file; temp_file_path is assigned after the upload was read
\* and written, so it stays None when one of the two raises.
CreateTemp(written) ==
    /\ upc = "create"
    /\ file_type # "website"
    /\ temp_file = "none"
    /\ temp_file' = "exists"
    /\ IF written
       THEN /\ temp_file_path' = TRUE
            /\ UNCHANGED <<upc, exc, thrown>>
       ELSE /\ Raise(Exception("reading the upload raised"), "create_except")
            /\ UNCHANGED temp_file_path
    /\ UNCHANGED <<knowledge_file, knowledge_url, file_type, calls, reply, notUpload>>

\* The source is at hand: the URL, or the temporary file of the upload.
SourceReady == file_type = "website" \/ temp_file_path

\* vector_store.py 161-235, a raise inside the try of
\* create_or_update_vector_store: the URL check of line 167, load_documents
\* raising, no documents (190), no chunks (206), or the build raising.
CreateRaise(site) ==
    /\ upc = "create"
    /\ SourceReady
    /\ IF file_type = "website" /\ ~ valid_url(knowledge_url)
       THEN Raise(HTTPException("400", "Invalid URL provided"), "create_except")
       ELSE Raise(CASE site = "nodocs" -> HTTPException("400", "No content found in the source")
                    [] site = "nochunks" -> HTTPException("400", "No valid documents created after splitting")
                    [] site = "load" -> Exception("load_documents raised")
                    [] site = "build" -> Exception("the build raised"),
                  "create_except")
    /\ UNCHANGED <<knowledge_file, knowledge_url, file_type, calls, reply, temp_file_path,
                   temp_file, notUpload>>

\* vector_store.py 237-241: except Exception as e: ... raise
\* HTTPException(status_code=500, ...); an HTTPException is an Exception.
\* The finally clause is next.
CreateExcept ==
    /\ upc = "create_except"
    /\ exc' = HTTPException("500", "Error processing knowledge base")
    /\ upc' = "create_finally"
    /\ UNCHANGED <<knowledge_file, knowledge_url, file_type, thrown, calls, reply,
                   temp_file_path, temp_file, notUpload>>

\* vector_store.py 235: return new_vs_path.  The finally clause is next.
CreateReturn ==
    /\ upc = "create"
    /\ SourceReady
    /\ valid_url(knowledge_url) \/ file_type # "website"
    /\ upc' = "create_finally"
    /\ UNCHANGED <<knowledge_file, knowledge_url, file_type, exc, thrown, calls, reply,
                   temp_file_path, temp_file, notUpload>>

\* The finally clause that removes the file only when nothing was raised.
CreateFinally_onSuccess(unlinked) ==
    /\ upc = "create_finally"
    /\ temp_file' = IF temp_file_path /\ temp_file = "exists" /\ ~ exc.raised
                    THEN (IF unlinked THEN "removed" ELSE "kept")
                    ELSE temp_file
    /\ upc' = IF exc.raised THEN "except" ELSE "returned"
    /\ UNCHANGED <<knowledge_file, knowledge_url, file_type, exc, thrown, calls, reply,
                   temp_file_path, notUpload>>

\* vector_store.py 242-249, the finally clause: if temp_file_path and
\* os.path.exists(temp_file_path), os.unlink removes the file, or raises
\* (the file is still open somewhere) and a warning is logged.  The
\* exception in flight, or the return value, then reaches the handler.
CreateFinally(unlinked) ==
    /\ upc = "create_finally"
    /\ temp_file' = IF temp_file_path /\ temp_file = "exists"
                    THEN (IF unlinked THEN "removed" ELSE "kept")
                    ELSE temp_file
    /\ upc' = IF exc.raised THEN "except" ELSE "returned"
    /\ UNCHANGED <<knowledge_file, knowledge_url, file_type, exc, thrown, calls, reply,
                   temp_file_path, notUpload>>

\* chatbot.py 62-63: user_vs_path is set and the handler answers 200.
UploadReturn ==
    /\ upc = "returned"
    /\ reply' = Answer("Chatbot knowledge base updated successfully with advanced processing.")
    /\ upc' = "done"
    /\ UNCHANGED <<knowledge_file, knowledge_url, file_type, exc, thrown, calls,
                   temp_file_path, temp_file, notUpload>>

\* chatbot.py 67-69: except Exception as e: raise HTTPException(500, ...).
UploadExcept ==
    /\ upc = "except"
    /\ exc' = HTTPException("500", "Error processing knowledge base")
    /\ reply' = exc'
    /\ upc' = "done"
    /\ UNCHANGED <<knowledge_file, knowledge_url, file_type, thrown, calls, temp_file_path,
                   temp_file, notUpload>>

UploadNext ==
    \/ UploadCheck
    \/ UploadValidate
    \/ \E written \in BOOLEAN : CreateTemp(written)
    \/ \E site \in {"load", "nodocs", "nochunks", "build"} : CreateRaise(site)
    \/ CreateExcept
    \/ CreateReturn
    \/ \E unlinked \in BOOLEAN : CreateFinally(unlinked)
    \/ UploadReturn
    \/ UploadExcept

SpecUpload == UploadInit /\ [][UploadNext]_vars

\* C25: a validation failure during ingestion reaches the caller as HTTP
\* 400, an internal failure as HTTP 500, and
\* create_or_update_vector_store is called at most once.
C25_ValidationErrorIs400 ==
    upc = "done" /\ thrown.raised =>
        /\ thrown.status = "400" => reply.status = "400"
        /\ thrown.status # "400" => reply.status = "500"
        /\ calls <= 1

\* ------------------------------------------------------ claims: the crawl
\* C26: crawl_links returns, whatever the links of the pages (cycles
\* included), whichever fetches fail and whatever the limit; when it has
\* returned, exactly limit URLs were collected or the frontier is empty.
C26_CrawlTerminates ==
    /\ <>(wpc # "crawl")
    /\ [](wpc # "crawl" => Len(all_links) = limit \/ to_visit = <<>>)

\* A crawl has returned with the limit reached and the frontier not empty,
\* after a failed fetch and after skipping a URL that was pushed twice.
C26_Witness ==
    /\ wpc = "crawled"
    /\ Len(all_links) = limit
    /\ to_visit # <<>>
    /\ Len(requested) > Len(all_links)
    /\ \E n \in 1..Len(to_visit) : to_visit[n] \in visited

\* The elements of the sequence s.
Range(s) == {s[n] : n \in 1..Len(s)}

\* C27: a URL whose fetch fails is not in the result and the loop goes on
\* with the rest of the stack; every URL of the result, the seed included,
\* was fetched successfully; the limit counts successful fetches only.
C27_FailedFetchSkipped ==
    [][/\ failed' # failed =>
             /\ all_links' = all_links
             /\ to_visit' = popped
             /\ wpc' = "crawl"
       /\ failed' \cap Range(all_links') = {}
       /\ Range(all_links') \subseteq Range(requested') \ failed'
       /\ (wpc' # "crawl" /\ to_visit' # <<>>) => Len(all_links') = limit']_vars

\* A crawl went on after a failed fetch and returned with the limit reached.
C27_Witness ==
    /\ wpc = "crawled"
    /\ limit >= 2
    /\ Len(all_links) = limit
    /\ \E m, n \in 1..Len(requested) :
           m < n /\ requested[m] \in failed /\ requested[n] \in Range(all_links)

\* C28: the URL crawl_links fetches next is the most recently discovered
\* link that is not visited yet: every link discovered after it has been
\* visited.
C28_StackOrder ==
    [][requested' # requested =>
          \E n \in 1..Len(discovered) :
              /\ discovered[n] = requested'[Len(requested')]
              /\ discovered[n] \notin visited
              /\ \A m \in (n + 1)..Len(discovered) : discovered[m] \in visited]_vars

\* The third fetch took a link of the second page while a link of the seed
\* page, discovered before it, still waits on the stack.
C28_Witness ==
    /\ wpc = "crawl"
    /\ Len(requested) = 3
    /\ to_visit # <<>>
    /\ to_visit[1] \notin visited
    /\ \E a, b \in 1..Len(discovered) :
           /\ a < b
           /\ discovered[a] = to_visit[1]
           /\ discovered[b] = requested[3]
           /\ \A c \in 1..(b - 1) : discovered[c] # requested[3]

\* ---------------------------------------------------- claims: the fallback
\* The links among the first n whose fallback text has at least 50
\* characters, in order.
RECURSIVE AtLeast50(_)
AtLeast50(n) ==
    IF n = 0 THEN <<>>
    ELSE IF texts[n] >= 50 THEN Append(AtLeast50(n - 1), all_links[n])
    ELSE AtLeast50(n - 1)

\* C29: the plain-HTTP fallback runs only when the renderer raised; it keeps
\* the pages whose text has at least 50 characters, a page of exactly 50
\* included, and a failed fetch drops only its own page.
C29_FallbackKeepsFrom50 ==
    /\ texts # <<>> => wpc \in {"fallback", "returned"} /\ next_link = Len(texts) + 1
    /\ documents # <<>> /\ texts = <<>> => wpc = "returned" /\ next_link = 0
    /\ texts # <<>> => documents = AtLeast50(Len(texts))

\* ------------------------------------------------ claims: the context cap
\* C30: in both query handlers the knowledge-base context the synthesizer
\* is given consists of the first min(3, n) of the n retrieved chunks, in
\* rank order; a chunk ranked fourth or later is not in it.
C30_TopThreeContext ==
    context.invoked =>
        LET n == Len(compressed_docs)
            kb == context.KnowledgeBase
        IN  /\ Len(kb) = IF n < 3 THEN n ELSE 3
            /\ \A r \in 1..Len(kb) : kb[r] = compressed_docs[r]

\* The WhatsApp handler invoked the synthesizer after four chunks were
\* retrieved.
C30_Witness ==
    /\ context.invoked
    /\ handler = "whatsapp_webhook"
    /\ Len(compressed_docs) = 4

\* ------------------------------------------------ claims: the worker pool
\* C31: the blocking steps of an ingestion run on the worker pool: while an
\* ingestion is embedding its batches, the event loop can take up a request
\* of another tenant.
C31_LoopFreeWhileEmbedding ==
    \A i, j \in Procs : \A u \in Tenants :
        (pc[i] = "building" /\ pc[j] = "idle" /\ u # req[i].user) =>
            ENABLED Begin(j, u)

\* ======================================================= the sweep by name
\* str(user['_id']) of two tenants, one id a prefix of the other.
UserIds == {<<"a">>, <<"a", "b">>}

\* The name vs_<user_id>_<timestamp> of line 163.
vs_name(id, ts) == <<"vs_">> \o id \o <<"_", ts>>

\* What the index root can hold: index directories of both tenants, a
\* directory named vs_<user_id> and an entry that is no index directory.
Entries ==
    {vs_name(id, ts) : id \in UserIds, ts \in {"7", "8"}}
        \cup {<<"vs_">> \o id : id \in UserIds} \cup {<<"tmp">>}

\* os.path.join(VECTOR_STORE_DIR, item)
item_path(item) == <<"user_vector_stores", "/">> \o item

\* The test on the name that also takes vs_<user_id><anything>.
is_old_store_loose(item) == startswith(item, <<"vs_">> \o user_id)

\* Line 147: item.startswith(user_pattern) or re.match(current_pattern, item)
\* with user_pattern = f"vs_{user_id}_" and current_pattern = f"vs_{user_id}$".
is_old_store(item) ==
    \/ startswith(item, <<"vs_">> \o user_id \o <<"_">>)
    \/ item = <<"vs_">> \o user_id

\* The sweep is called for one tenant, with or without a path to spare.
SweepInit ==
    /\ LifeInit
    /\ QueryIdle
    /\ ChunkIdle
    /\ CrawlIdle
    /\ DeleteIdle
    /\ ClearIdle
    /\ BatchIdle
    /\ UploadIdle
    /\ KeyIdle
    /\ user_id \in UserIds
    /\ exclude_current_path \in {NoPath} \cup {item_path(vs_name(user_id, ts)) : ts \in {"7", "8"}}
    /\ index_root \in SUBSET Entries
    /\ listing = {}
    /\ spc = "entry"

\* Line 141: os.listdir(VECTOR_STORE_DIR).
SweepListdir ==
    /\ spc = "entry"
    /\ listing' = index_root
    /\ spc' = "loop"
    /\ UNCHANGED <<user_id, exclude_current_path, index_root, notSweep>>

\* Lines 141-148, one entry: the spared path is passed over, an entry whose
\* name matches is handed to cleanup_vector_store_resources, which removes
\* it unless safe_delete_directory gives up (removed = FALSE).
SweepItem(item, removed) ==
    /\ spc = "loop"
    /\ item \in listing
    /\ listing' = listing \ {item}
    /\ index_root' =
          IF exclude_current_path # NoPath /\ item_path(item) = exclude_current_path
          THEN index_root
          ELSE IF is_old_store(item) /\ removed THEN index_root \ {item}
          ELSE index_root
    /\ UNCHANGED <<user_id, exclude_current_path, spc, notSweep>>

\* The loop is through, or lines 149-150 caught an exception: the function
\* returns.
SweepReturn(raised_early) ==
    /\ spc = "loop"
    /\ listing = {} \/ raised_early
    /\ spc' = "done"
    /\ UNCHANGED <<user_id, exclude_current_path, index_root, listing, notSweep>>

SweepNext ==
    \/ SweepListdir
    \/ \E item \in Entries, removed \in BOOLEAN : SweepItem(item, removed)
    \/ \E raised_early \in BOOLEAN : SweepReturn(raised_early)

SpecSweep == SweepInit /\ [][SweepNext]_vars

\* The index directories of tenant id: vs_<id>_<timestamp>, and vs_<id>.
OwnedBy(id) == {vs_name(id, ts) : ts \in {"7", "8"}} \cup {<<"vs_">> \o id}

\* C32: the sweep for tenant T removes nothing but directories named after
\* T: the directories of another tenant and the entries that are no index
\* directory stay.
C32_SweepFrame ==
    [][index_root \ index_root' \subseteq OwnedBy(user_id)]_vars

\* A sweep is through and has removed a directory of its tenant, while a
\* directory of the tenant whose id it is a prefix of, and the entry that is
\* no index directory, are still there.
C32_Witness ==
    /\ spc = "done"
    /\ user_id = <<"a">>
    /\ listing = {}
    /\ vs_name(<<"a">>, "7") \notin index_root
    /\ vs_name(<<"a", "b">>, "7") \in index_root
    /\ <<"vs_", "a", "b">> \in index_root
    /\ <<"tmp">> \in index_root

\* --------------------------------------------- claims: concurrent deleters
\* C33: safe_delete_directory returns False only if the directory still
\* exists when it returns, also when the cleanup task and the sweep of one
\* ingestion delete the same path.
C33_FalseOnlyIfStillThere ==
    [][\A d \in JobIds :
          (job'[d].failed /\ ~ job[d].failed) => disk'[job[d].cur] # "absent"]_vars

\* --------------------------------------------- claims: closing the store
\* C34: a Chroma client opened for a query request has been closed when the
\* request is finished, on the success path, on the early return without
\* synthesizer and on every error path.
C34_StoreClosedAtEnd ==
    qpc = "done" => client # "open"

\* ------------------------------------------------ claims: the temporary file
\* The call of create_or_update_vector_store has ended.
CallEnded == upc \in {"except", "returned", "done"} /\ calls > 0

\* C35 as stated: the temporary file written for an upload no longer exists
\* when the call has ended, whether the ingestion succeeded or failed later.
C35_TempFileGone ==
    CallEnded /\ temp_file_path => temp_file = "removed"

\* C35, amended: when the call has ended, the temporary file written for an
\* upload has been removed, or os.unlink raised on it and it is left
\* behind; the removal was attempted after a success and after a failure at
\* any later step.
C35_TempFileUnlinkAttempted ==
    CallEnded /\ temp_file_path => temp_file \in {"removed", "kept"}

\* The ingestion of an upload failed after the file was written, and the
\* file is gone.
C35_Witness ==
    /\ upc = "done"
    /\ temp_file_path
    /\ thrown.raised
    /\ temp_file = "removed"

\* ------------------------------------------------- claims: the overlap
\* C36: for every text the overlap calculate_dynamic_chunk_size returns is
\* positive and smaller than the chunk size.
C36_OverlapWithinChunk ==
    dynamic_chunk_size # 0 =>
        0 < dynamic_chunk_overlap /\ dynamic_chunk_overlap < dynamic_chunk_size

\* The empty text, which gets the smallest chunk size and overlap.
C36_Witness ==
    /\ total_chars = 0
    /\ dynamic_chunk_size = 200
    /\ dynamic_chunk_overlap = 30

\* ================================================================ API keys
\* ------------------------------------------------------------------ bounds
\* Clock readings per second: datetime.now() is finer than a second.
ClockResolution == 3
\* Seconds in an hour, scaled down.
SecondsPerHour == 1
\* Longest user id, scope and secret, in characters.
MaxIdLen == 2

\* ------------------------------------------------------- program constants
\* config.API_KEY_EXPIRY_HOURS
API_KEY_EXPIRY_HOURS == 3

\* timedelta(hours=API_KEY_EXPIRY_HOURS), in clock readings.
expiry == API_KEY_EXPIRY_HOURS * SecondsPerHour * ClockResolution

\* The clock runs until a key of every age around the expiry has been seen.
MaxClock == expiry + 2 * ClockResolution

\* Strings are sequences of characters; the decimal digits of a timestamp
\* are written as one character.
Strings(chars) == SeqsUpTo(chars, MaxIdLen)

\* str.replace(old, new) for single characters.
replace(str, old, new) == [n \in 1..Len(str) |-> IF str[n] = old THEN new ELSE str[n]]

\* str.split('_')
RECURSIVE split(_)
split(str) ==
    IF \A n \in 1..Len(str) : str[n] # "_" THEN <<str>>
    ELSE LET n == CHOOSE m \in 1..Len(str) :
                      str[m] = "_" /\ \A j \in 1..(m - 1) : str[j] # "_"
         IN  <<SubSeq(str, 1, n - 1)>> \o split(SubSeq(str, n + 1, Len(str)))

\* int(datetime.now(timezone.utc).timestamp()): whole seconds.
seconds(t) == t \div ClockResolution

\* int(timestamp_str) succeeds.
is_int(str) == \E n \in 0..seconds(MaxClock) : str = <<ToString(n)>>
\* int(timestamp_str)
int(str) == CHOOSE n \in 0..seconds(MaxClock) : str = <<ToString(n)>>

\* The key built with the scope as it is.
generate_scoped_key_raw(uid, scope, t, secret_part) ==
    <<"user", "_">> \o uid \o <<"_">> \o scope
        \o <<"_", ToString(seconds(t)), "_">> \o secret_part

\* generate_scoped_key(user_id, scope)["key"] at clock t, with the secret
\* secrets.token_urlsafe(32) returned (api_key_service.py 15-22).
generate_scoped_key(uid, scope, t, secret_part) ==
    <<"user", "_">> \o uid \o <<"_">> \o replace(scope, "_", "-")
        \o <<"_", ToString(seconds(t)), "_">> \o secret_part

Invalid(error) == [valid |-> FALSE, user_id |-> <<>>, scope |-> <<>>, error |-> error]

\* validate_api_key(api_key, required_scope) at clock t
\* (api_key_service.py 37-76).
validate_api_key(key, required, t) ==
    IF key = <<>> THEN Invalid("API key required")
    ELSE LET parts == split(key)
         IN  IF Len(parts) < 5 THEN Invalid("Invalid key format")
             ELSE IF parts[1] # <<"user">> THEN Invalid("Invalid key type")
             ELSE IF ~ is_int(parts[4]) THEN Invalid("Invalid timestamp in key")
             ELSE IF t - int(parts[4]) * ClockResolution > expiry THEN Invalid("Key expired")
             ELSE IF replace(parts[3], "-", "_") # required
                  THEN Invalid("Insufficient permissions")
             ELSE [valid |-> TRUE, user_id |-> parts[2],
                   scope |-> replace(parts[3], "-", "_"), error |-> "none"]

\* A key is about to be generated, at any point within a second.
KeyInit ==
    /\ LifeInit
    /\ QueryIdle
    /\ ChunkIdle
    /\ CrawlIdle
    /\ DeleteIdle
    /\ ClearIdle
    /\ BatchIdle
    /\ UploadIdle
    /\ SweepIdle
    /\ key_user_id \in Strings({"a", "_"})
    /\ key_scope \in Strings({"s", "_", "-"})
    /\ clock \in 0..(ClockResolution - 1)
    /\ generated_at = 0
    /\ api_key = <<>>
    /\ required_scope = <<>>
    /\ validation = NoValidation
    /\ apc = "new"

\* generate_scoped_key returns the key.
Generate(secret_part) ==
    /\ apc = "new"
    /\ api_key' = generate_scoped_key(key_user_id, key_scope, clock, secret_part)
    /\ generated_at' = clock
    /\ apc' = "issued"
    /\ UNCHANGED <<key_user_id, key_scope, clock, required_scope, validation, notKey>>

\* Time passes while the key is in its owner's hands.
KeyTick ==
    /\ apc = "issued"
    /\ clock < MaxClock
    /\ clock' = clock + 1
    /\ UNCHANGED <<key_user_id, key_scope, generated_at, api_key, required_scope,
                   validation, apc, notKey>>

\* validate_api_key returns.
Validate(required) ==
    /\ apc = "issued"
    /\ required_scope' = required
    /\ validation' = validate_api_key(api_key, required, clock)
    /\ apc' = "validated"
    /\ UNCHANGED <<key_user_id, key_scope, clock, generated_at, api_key, notKey>>

KeyNext ==
    \/ \E secret_part \in Strings({"x", "_", "-"}) \ {<<>>} : Generate(secret_part)
    \/ KeyTick
    \/ \E required \in Strings({"s", "_", "-"}) : Validate(required)

SpecKey == KeyInit /\ [][KeyNext]_vars

\* The key is for a user id without underscore and a scope without hyphen.
WellFormed ==
    /\ \A n \in 1..Len(key_user_id) : key_user_id[n] # "_"
    /\ \A n \in 1..Len(key_scope) : key_scope[n] # "-"

\* The validation returned the key's user id and scope.
RoundTrip ==
    /\ validation.valid
    /\ validation.user_id = key_user_id
    /\ validation.scope = key_scope

====
